---- MODULE Spec2Model ----
(***************************************************************************)
(* Model of the event registration and dispatch subsystem of               *)
(* src/src/prototype/dom/event.js (observe / stopObserving / fire, the     *)
(* per-element registry Event.cache, the responders, Event.Handler / on),  *)
(* together with the part of the host platform it drives: per-node         *)
(* listener lists, addEventListener / removeEventListener / dispatchEvent. *)
(***************************************************************************)
EXTENDS Integers, Sequences, FiniteSets, TLC

(***************************************************************************)
(* Bounds.                                                                 *)
(***************************************************************************)
\* Largest number of bindings the registry holds at once (guard of observe).
MaxBindings == 2
\* Largest number of Event.Handler instances constructed.
MaxInstances == 1
\* Largest number of readiness signals (DOMContentLoaded, window load) raised.
MaxSignals == 2

(***************************************************************************)
(* The document: a chain  span < li < root < outer < document < window,    *)
(* and the text node inside span.                                          *)
(***************************************************************************)
window == "window"
document == "document"
\* JavaScript's undefined / null, where a node is expected.
NoNode == "undefined"

Elements == {"outer", "root", "li", "span"}
Nodes == {window, document, "text"} \cup Elements

\* node.parentNode (null above the document).
parentNode(n) ==
  CASE n = "text" -> "span"
    [] n = "span" -> "li"
    [] n = "li" -> "root"
    [] n = "root" -> "outer"
    [] n = "outer" -> document
    [] OTHER -> NoNode

\* Object.isElement(node): nodeType === 1.
isElement(n) == n \in Elements

\* node.nodeType === Node.TEXT_NODE.
isTextNode(n) == n = "text"

\* currentTarget.tagName is defined (elements only).
hasTagName(n) == n \in Elements

\* The selectors used for delegation, and element.matches(expression).
Selectors == {"li.item", "div", "#outer"}
\* JavaScript's null / undefined selector.
NoSelector == ""
matches(n, expression) ==
  CASE expression = "li.item" -> n = "li"
    [] expression = "div" -> n \in {"root", "outer"}
    [] expression = "#outer" -> n = "outer"
    [] OTHER -> FALSE

\* The propagation path of an event dispatched on n: n, its ancestors, then
\* the document and the window.
RECURSIVE EventPath(_)
EventPath(n) ==
  IF n = window THEN <<window>>
  ELSE IF n = document THEN <<document, window>>
  ELSE <<n>> \o EventPath(parentNode(n))

(***************************************************************************)
(* Event names are strings of characters, so that isCustomEvent is the     *)
(* search for ':' that the code performs.                                  *)
(***************************************************************************)
click == <<"c", "l", "i", "c", "k">>
dataavailable == <<"d", "a", "t", "a", "a", "v", "a", "i", "l", "a", "b", "l", "e">>
nsfoo == <<"n", "s", ":", "f", "o", "o">>
nsbar == <<"n", "s", ":", "b", "a", "r">>
\* An absent (undefined) event name argument or event.eventName.
NoName == <<>>

NativeNames == {click, dataavailable}
CustomNames == {nsfoo, nsbar}
EventNames == NativeNames \cup CustomNames

\* An absent memo argument, the default memo {} and a payload object.
NoMemo == "undefined"
EmptyObject == "{}"
Memos == {NoMemo, "payload"}
\* The values of memo for which memo || {} is {}.
falsy(memo) == memo \in {NoMemo, "0", "false", "''", "null"}

\* The bubble argument of fire: absent, true or false.
NoBubble == "undefined"
Bubbles == {NoBubble, "true", "false"}

(***************************************************************************)
(* Functions.  A function reference is the function and the object it is   *)
(* bound to (inst = 0: a plain user function; inst = k: handleEvent bound  *)
(* to the k-th Event.Handler).                                             *)
(***************************************************************************)
UserFunctions == {"H1", "H2"}
Callbacks == {"cb"}
PlainHandler(f) == [fn |-> f, inst |-> 0]
BoundHandler(k) == [fn |-> "handleEvent", inst |-> k]
NoHandler == [fn |-> "undefined", inst |-> 0]
PlainHandlers == {PlainHandler(f) : f \in UserFunctions}

\* element._prototypeUID of a node that has none.
UNDEFINED == -1

VARIABLES
  prototypeUID,   \* node -> element._prototypeUID
  StorageUID,     \* Element.Storage.UID, the next identity
  stores,         \* the identities that have a store in Element.Storage
  hashes,         \* Element.Storage: identity -> the store (key -> value)
  cache,          \* Event.cache: uid -> [element, buckets: eventName -> bindings]
  listeners,      \* platform: node -> sequence of [type, listener]
  instances,      \* the Event.Handler objects constructed so far
  lifecycle,      \* history: the last call made on each Event.Handler
  last,           \* the last call made: operation, arguments, return value
  log,            \* user functions invoked during the last call, in order
  readyState,     \* document.readyState when the library was evaluated
  loaded,         \* document.loaded
  fired,          \* history: the times fireContentLoadedEvent fired dom:loaded
  signals         \* history: the readiness signals the platform has raised

vars ==
  <<prototypeUID, StorageUID, stores, hashes, cache, listeners, instances,
    lifecycle, last, log, readyState, loaded, fired, signals>>

(***************************************************************************)
(* Machine state threaded through the code: the part of the program state  *)
(* that handlers and registry functions read and write, with the exception *)
(* that is propagating (raised) and the exceptions that reached the        *)
(* platform's top level during the call (uncaught).                        *)
(***************************************************************************)
\* No exception is propagating.
NoError == "none"

\* The properties a new event object has that Event.stop changes: the
\* platform's canceled flag and stop-propagation flag, and the stopped
\* property, which a new event does not have.
NewEvent ==
  [defaultPrevented |-> FALSE, propagationStopped |-> FALSE,
   stopped |-> "undefined"]

\* flags: those properties of the event being dispatched; returned: those of
\* the event whose dispatch has ended last.
Machine ==
  [uid |-> prototypeUID, UID |-> StorageUID, stores |-> stores, cache |-> cache,
   listeners |-> listeners, log |-> <<>>, loaded |-> loaded, fired |-> fired,
   signals |-> signals, raised |-> NoError, uncaught |-> <<>>,
   flags |-> NewEvent, returned |-> NewEvent, hashes |-> hashes]

\* getUniqueElementID with Element.Storage.UID read but not incremented.
getUniqueElementID_NoIncrement(m, element) ==
  IF element = window THEN <<0, m>>
  ELSE IF m.uid[element] = UNDEFINED
       THEN <<m.UID, [m EXCEPT !.uid[element] = m.UID]>>
       ELSE <<m.uid[element], m>>

\* getUniqueElementID(element): [1] the identity, [2] the machine afterwards.
getUniqueElementID(m, element) ==
  IF element = window THEN <<0, m>>
  ELSE IF m.uid[element] = UNDEFINED
       THEN <<m.UID, [m EXCEPT !.uid[element] = m.UID, !.UID = m.UID + 1]>>
       ELSE <<m.uid[element], m>>

\* isCustomEvent(eventName): eventName.includes(':').
isCustomEvent(eventName) == \E i \in 1..Len(eventName) : eventName[i] = ":"

\* The platform name without the translation of simulated names.
actualEventName_AsGiven(eventName) == eventName

\* The platform name a bucket is attached under.
actualEventName(eventName) ==
  IF isCustomEvent(eventName) THEN dataavailable ELSE eventName

\* An entry of Event.cache as created: { element: element }.
NewRegistry(element) == [element |-> element, buckets |-> <<>>]

\* Put a key into a function (JavaScript: object[key] = value).
Put(f, k, v) == [x \in DOMAIN f \cup {k} |-> IF x = k THEN v ELSE f[x]]
\* Remove a key from a function (JavaScript: delete object[key]).
Delete(f, k) == [x \in DOMAIN f \ {k} |-> f[x]]

\* getOrCreateRegistryFor(element): [1] the uid of the entry, [2] the machine.
getOrCreateRegistryFor(m, element) ==
  LET g == getUniqueElementID(m, element)
      uid == g[1]
      m1 == g[2]
  IN IF uid \in DOMAIN m1.cache THEN <<uid, m1>>
     ELSE <<uid, [m1 EXCEPT !.cache = Put(m1.cache, uid, NewRegistry(element))]>>

\* destroyRegistryForElement(element): delete Event.cache[uid].
destroyRegistryForElement(m, element) ==
  LET g == getUniqueElementID(m, element)
  IN [g[2] EXCEPT !.cache = Delete(g[2].cache, g[1])]

\* The responders live in the registry or attached to the platform.
LiveResponders(m) ==
  UNION {UNION {{m.cache[u].buckets[e][i].responder :
                   i \in 1..Len(m.cache[u].buckets[e])} :
                 e \in DOMAIN m.cache[u].buckets} : u \in DOMAIN m.cache}
  \cup UNION {{m.listeners[n][i].listener : i \in 1..Len(m.listeners[n])} :
                n \in Nodes}

\* Event._createResponder(uid, eventName, handler): a new closure over
\* (uid, eventName, handler).  gen tells it apart from every closure over the
\* same three values that is still alive.
createResponder(m, uid, eventName, handler) ==
  LET same == {r \in LiveResponders(m) :
                 r.uid = uid /\ r.eventName = eventName /\ r.handler = handler}
      gen == CHOOSE g \in 0..Cardinality(same) : \A r \in same : r.gen # g
  IN [uid |-> uid, eventName |-> eventName, handler |-> handler,
      custom |-> isCustomEvent(eventName), gen |-> gen]

\* The scan of a bucket that looks at its last binding only.
FindHandler_LastOnly(entries, handler) ==
  IF Len(entries) > 0 /\ entries[Len(entries)].handler = handler
  THEN Len(entries)
  ELSE 0

\* Index of the last binding of entries whose handler is handler, or 0.
FindHandler(entries, handler) ==
  LET hits == {i \in 1..Len(entries) : entries[i].handler = handler}
  IN IF hits = {} THEN 0 ELSE CHOOSE i \in hits : \A j \in hits : j <= i

\* The sequence s without its i-th element (entries.splice(i, 1)).
Splice(s, i) == [j \in 1..(Len(s) - 1) |-> IF j < i THEN s[j] ELSE s[j + 1]]

\* No binding (register / unregister return null / undefined).
NoEntry == [handler |-> NoHandler,
            responder |-> [uid |-> UNDEFINED, eventName |-> NoName,
                           handler |-> NoHandler, custom |-> FALSE, gen |-> 0]]

\* register that puts the new binding in front of the bucket (unshift for push).
register_Unshift(m, element, eventName, handler) ==
  LET g == getOrCreateRegistryFor(m, element)
      uid == g[1]
      m1 == g[2]
      m2 == IF eventName \in DOMAIN m1.cache[uid].buckets THEN m1
            ELSE [m1 EXCEPT !.cache[uid].buckets = Put(@, eventName, <<>>)]
      entries == m2.cache[uid].buckets[eventName]
  IN IF \E i \in 1..Len(entries) : entries[i].handler = handler
     THEN <<[handler |-> [fn |-> "undefined", inst |-> 0],
             responder |-> [uid |-> -1, eventName |-> <<>>,
                            handler |-> [fn |-> "undefined", inst |-> 0],
                            custom |-> FALSE, gen |-> 0]], m2>>
     ELSE LET entry == [handler |-> handler,
                        responder |-> createResponder(m2, uid, eventName, handler)]
          IN <<entry,
               [m2 EXCEPT !.cache[uid].buckets[eventName] = <<entry>> \o @]>>

\* register without the scan for a binding of the same handler.
register_NoScan(m, element, eventName, handler) ==
  LET g == getOrCreateRegistryFor(m, element)
      uid == g[1]
      m1 == g[2]
      m2 == IF eventName \in DOMAIN m1.cache[uid].buckets THEN m1
            ELSE [m1 EXCEPT !.cache[uid].buckets = Put(@, eventName, <<>>)]
      entry == [handler |-> handler,
                responder |-> createResponder(m2, uid, eventName, handler)]
  IN <<entry, [m2 EXCEPT !.cache[uid].buckets[eventName] = Append(@, entry)]>>

\* register that looks for the handler in every bucket of the node.
registerIn_NodeWide(m1, uid, eventName, handler) ==
  LET m2 == IF eventName \in DOMAIN m1.cache[uid].buckets THEN m1
            ELSE [m1 EXCEPT !.cache[uid].buckets = Put(@, eventName, <<>>)]
  IN IF \E e \in DOMAIN m2.cache[uid].buckets :
          FindHandler(m2.cache[uid].buckets[e], handler) # 0
     THEN <<NoEntry, m2>>
     ELSE LET entry == [handler |-> handler,
                        responder |-> createResponder(m2, uid, eventName, handler)]
          IN <<entry,
               [m2 EXCEPT !.cache[uid].buckets[eventName] = Append(@, entry)]>>

\* The statements of register that follow the lookup of the registry, which
\* is m1.cache[uid]: [1] the new binding or NoEntry, [2] the machine.
registerIn(m1, uid, eventName, handler) ==
  LET m2 == IF eventName \in DOMAIN m1.cache[uid].buckets THEN m1
            ELSE [m1 EXCEPT !.cache[uid].buckets = Put(@, eventName, <<>>)]
      entries == m2.cache[uid].buckets[eventName]
  IN IF FindHandler(entries, handler) # 0 THEN <<NoEntry, m2>>
     ELSE LET entry == [handler |-> handler,
                        responder |-> createResponder(m2, uid, eventName, handler)]
          IN <<entry,
               [m2 EXCEPT !.cache[uid].buckets[eventName] = Append(@, entry)]>>

\* register(element, eventName, handler): [1] the new binding or NoEntry,
\* [2] the machine.
register(m, element, eventName, handler) ==
  LET g == getOrCreateRegistryFor(m, element)
  IN registerIn(g[2], g[1], eventName, handler)

\* The statements of unregister that follow the lookup of the registry, which
\* is m1.cache[uid]: [1] the binding removed or NoEntry, [2] the machine.
unregisterFrom(m1, uid, element, eventName, handler) ==
  LET registry == m1.cache[uid]
      present == eventName \in DOMAIN registry.buckets
      entries == IF present THEN registry.buckets[eventName] ELSE <<>>
      i == FindHandler(entries, handler)
      entry == IF i = 0 THEN NoEntry ELSE entries[i]
      rest == IF i = 0 THEN entries ELSE Splice(entries, i)
      m2 == IF present THEN [m1 EXCEPT !.cache[uid].buckets[eventName] = rest]
            ELSE m1
      m3 == IF Len(rest) = 0
            THEN LET m4 == [m2 EXCEPT !.cache[uid].buckets = Delete(@, eventName)]
                 IN IF DOMAIN m4.cache[uid].buckets = {}
                    THEN destroyRegistryForElement(m4, element)
                    ELSE m4
            ELSE m2
  IN <<entry, m3>>

\* unregister without the destruction of a registry left with no event name:
\* the entry of the element is created again after unregister destroyed it.
unregister_KeepRegistry(m, element, eventName, handler) ==
  LET g == getOrCreateRegistryFor(m, element)
      r == unregisterFrom(g[2], g[1], element, eventName, handler)
  IN <<r[1], getOrCreateRegistryFor(r[2], element)[2]>>

\* unregister(element, eventName, handler): [1] the binding removed or
\* NoEntry, [2] the machine.
unregister(m, element, eventName, handler) ==
  LET g == getOrCreateRegistryFor(m, element)
  IN unregisterFrom(g[2], g[1], element, eventName, handler)

(***************************************************************************)
(* The platform's listener lists.                                          *)
(***************************************************************************)
\* element.addEventListener(type, listener, false): a listener already in the
\* list under the same type is not added again.
addEventListener(m, element, type, listener) ==
  LET l == [type |-> type, listener |-> listener]
      ls == m.listeners[element]
  IN IF \E i \in 1..Len(ls) : ls[i] = l THEN m
     ELSE [m EXCEPT !.listeners[element] = Append(ls, l)]

\* element.removeEventListener(type, listener, false).
removeEventListener(m, element, type, listener) ==
  LET l == [type |-> type, listener |-> listener]
  IN [m EXCEPT !.listeners[element] = SelectSeq(@, LAMBDA x : x # l)]

\* removeEvent that detaches under the event name as given, without the
\* translation of simulated names to the carrier name.
removeEvent_Untranslated(m, element, eventName, responder) ==
  removeEventListener(m, element, eventName, responder)

\* removeEvent that leaves the responder attached.
removeEvent_Keep(m, element, eventName, responder) == m

\* removeEvent(element, eventName, responder).
removeEvent(m, element, eventName, responder) ==
  removeEventListener(m, element, actualEventName(eventName), responder)

\* The removal loop written  while (--i) : it leaves the first binding of
\* entries attached.
RECURSIVE removeEntries_SkipFirst(_, _, _, _, _)
removeEntries_SkipFirst(m, element, eventName, entries, i) ==
  IF i <= 1 THEN m
  ELSE removeEntries_SkipFirst(
         removeEvent(m, element, eventName, entries[i].responder),
         element, eventName, entries, i - 1)

\* removeEvent for every binding of entries, from the last to the first.
RECURSIVE removeEntries(_, _, _, _, _)
removeEntries(m, element, eventName, entries, i) ==
  IF i = 0 THEN m
  ELSE removeEntries(removeEvent(m, element, eventName, entries[i].responder),
                     element, eventName, entries, i - 1)

\* The loop of stopObservingElement over the buckets of a destroyed registry.
RECURSIVE removeBuckets(_, _, _, _)
removeBuckets(m, element, buckets, names) ==
  IF names = {} THEN m
  ELSE LET eventName == CHOOSE e \in names : TRUE
       IN removeBuckets(removeEntries(m, element, eventName, buckets[eventName],
                                      Len(buckets[eventName])),
                        element, buckets, names \ {eventName})

(***************************************************************************)
(* observe and the three forms of stopObserving.                           *)
(***************************************************************************)
\* observe that attaches a responder only for the first binding of a node.
observe_FirstOnly(m, element, eventName, handler) ==
  LET r == register(m, element, eventName, handler)
      entry == r[1]
  IN IF entry = NoEntry \/ (element # window /\ m.uid[element] \in DOMAIN m.cache)
     THEN r[2]
     ELSE addEventListener(r[2], element, actualEventName(eventName),
                           entry.responder)

\* observe(element, eventName, handler).
observe(m, element, eventName, handler) ==
  LET r == register(m, element, eventName, handler)
      entry == r[1]
  IN IF entry = NoEntry THEN r[2]
     ELSE addEventListener(r[2], element, actualEventName(eventName),
                           entry.responder)

\* stopObservingElement(element).
stopObservingElement(m, element) ==
  LET g == getUniqueElementID(m, element)
      uid == g[1]
      m1 == g[2]
  IN IF uid \notin DOMAIN m1.cache THEN m1
     ELSE LET registry == m1.cache[uid]
              m2 == [m1 EXCEPT !.cache = Delete(@, uid)]
          IN removeBuckets(m2, element, registry.buckets, DOMAIN registry.buckets)

\* stopObservingEventName without the test for another registered event
\* name: it always destroys the registry of the element.
stopObservingEventName_AlwaysDestroy(m, element, eventName) ==
  LET g == getOrCreateRegistryFor(m, element)
      uid == g[1]
      m1 == g[2]
      registry == m1.cache[uid]
      m2 == IF eventName \in DOMAIN registry.buckets
            THEN LET entries == registry.buckets[eventName]
                     m3 == [m1 EXCEPT !.cache[uid].buckets = Delete(@, eventName)]
                 IN removeEntries(m3, element, eventName, entries, Len(entries))
            ELSE m1
  IN destroyRegistryForElement(m2, element)

\* stopObservingEventName that tears down every event name of the element.
stopObservingEventName_AllNames(m, element, eventName) ==
  stopObservingElement(m, element)

\* stopObservingEventName(element, eventName).
stopObservingEventName(m, element, eventName) ==
  LET g == getOrCreateRegistryFor(m, element)
      uid == g[1]
      m1 == g[2]
      registry == m1.cache[uid]
      m2 == IF eventName \in DOMAIN registry.buckets
            THEN LET entries == registry.buckets[eventName]
                     m3 == [m1 EXCEPT !.cache[uid].buckets = Delete(@, eventName)]
                 IN removeEntries(m3, element, eventName, entries, Len(entries))
            ELSE m1
  IN IF DOMAIN m2.cache[uid].buckets # {} THEN m2
     ELSE destroyRegistryForElement(m2, element)

\* The end of stopObserving(element, eventName, handler), where r is what
\* unregister returned: removeEvent for the binding removed, if there is one.
removeEntry(r, element, eventName) ==
  IF r[1] = NoEntry THEN r[2]
  ELSE removeEvent(r[2], element, eventName, r[1].responder)

\* stopObserving that takes no account of the handler argument.
stopObserving_AnyHandler(m, element, eventName, handler) ==
  IF eventName = NoName THEN stopObservingElement(m, element)
  ELSE stopObservingEventName(m, element, eventName)

\* stopObserving(element, eventName, handler); NoName and NoHandler stand for
\* arguments that are not given.
stopObserving(m, element, eventName, handler) ==
  IF eventName = NoName /\ handler = NoHandler
  THEN stopObservingElement(m, element)
  ELSE IF handler = NoHandler
  THEN stopObservingEventName(m, element, eventName)
  ELSE removeEntry(unregister(m, element, eventName, handler), element, eventName)

(***************************************************************************)
(* Event objects, Event.findElement and Event.Handler#handleEvent.         *)
(***************************************************************************)
load == <<"l", "o", "a", "d">>
error == <<"e", "r", "r", "o", "r">>
DOMContentLoaded ==
  <<"D", "O", "M", "C", "o", "n", "t", "e", "n", "t", "L", "o", "a", "d", "e", "d">>
\* 'dom:loaded'
domloaded == <<"d", "o", "m", ":", "l", "o", "a", "d", "e", "d">>

\* An event of a native type raised by the platform itself.
platformEvent(type) ==
  [type |-> type, bubbles |-> TRUE, eventName |-> NoName, memo |-> NoMemo,
   target |-> NoNode]

\* currentTarget is an <input type="radio">; the document has none.
isRadioInput(n) == FALSE

\* _element without the step from a text node to its parent.
element_TextNode(event, currentTarget) ==
  IF hasTagName(currentTarget)
     /\ (event.type = load \/ event.type = error
         \/ (event.type = click /\ isRadioInput(currentTarget)))
  THEN currentTarget
  ELSE event.target

\* _element(event): the node the event occurred on.
element(event, currentTarget) ==
  LET node == IF hasTagName(currentTarget)
                 /\ (event.type = load \/ event.type = error
                     \/ (event.type = click /\ isRadioInput(currentTarget)))
              THEN currentTarget
              ELSE event.target
  IN IF isTextNode(node) THEN parentNode(node) ELSE node

\* The loop of findElement stepping to the parent before the test, so that the
\* node the event occurred on is never the one found.
RECURSIVE findUp_FromParent(_, _)
findUp_FromParent(node, expression) ==
  IF node = NoNode \/ parentNode(node) = NoNode THEN NoNode
  ELSE IF isElement(parentNode(node)) /\ matches(parentNode(node), expression)
  THEN parentNode(node)
  ELSE findUp_FromParent(parentNode(node), expression)

\* The loop of findElement: the first element from node upwards that matches
\* expression, or NoNode.
RECURSIVE findUp(_, _)
findUp(node, expression) ==
  IF node = NoNode THEN NoNode
  ELSE IF isElement(node) /\ matches(node, expression) THEN node
  ELSE findUp(parentNode(node), expression)

\* findElement(event, expression).
findElement(event, currentTarget, expression) ==
  LET node == element(event, currentTarget)
  IN IF expression = NoSelector THEN node ELSE findUp(node, expression)

\* One invocation of a user function, as recorded in the log: the function,
\* its context, its arguments (the event and, for a delegation callback, the
\* element found), and the responder that made the call (the node it ran on,
\* the event name and the handler it was created for).
Invocation(fn, this, event, found, currentTarget, r) ==
  [fn |-> fn, this |-> this, event |-> event, element |-> found,
   currentTarget |-> currentTarget, bucket |-> r.eventName,
   handler |-> r.handler]

\* Event.Handler#handleEvent(event), for the Event.Handler object self,
\* called by responder r.
handleEvent(m, self, event, currentTarget, r) ==
  LET found == findElement(event, currentTarget, self.selector)
  IN IF found # NoNode
     THEN [m EXCEPT !.log = Append(@, Invocation(self.callback, self.element,
                                                 event, found, currentTarget, r))]
     ELSE m

\* Event.stop that does not stop the propagation.
stop_event_NoStopPropagation(m) ==
  [m EXCEPT !.flags = [defaultPrevented |-> TRUE, propagationStopped |-> FALSE,
                       stopped |-> "true"]]

\* Event.stop(event), for the event being dispatched (it is cancelable):
\* preventDefault, stopPropagation, stopped = true.
stop_event(m) ==
  [m EXCEPT !.flags = [defaultPrevented |-> TRUE, propagationStopped |-> TRUE,
                       stopped |-> "true"]]

\* The user functions that do more than return, called with context this and
\* an event of logical name eventName: they call stopObserving for
\* themselves, for H1, for the bucket or for the node, observe H2, throw, or
\* call Event.stop for the event (HStop).
userFunction(m, fn, this, eventName) ==
  IF fn \in {"HStopSelf", "HStopH1", "HStopName", "HStopAll", "HStopThrow"}
  THEN [stopObserving(m, this,
                      IF fn = "HStopAll" THEN NoName ELSE eventName,
                      CASE fn \in {"HStopSelf", "HStopThrow"} -> PlainHandler(fn)
                        [] fn = "HStopH1" -> PlainHandler("H1")
                        [] OTHER -> NoHandler)
          EXCEPT !.raised = IF fn = "HStopThrow" THEN "Error" ELSE @]
  ELSE IF fn = "HObserve" THEN observe(m, this, eventName, PlainHandler("H2"))
  ELSE IF fn = "HThrow" THEN [m EXCEPT !.raised = "Error"]
  ELSE IF fn = "HStop" THEN stop_event(m)
  ELSE m

\* The other functions used as handlers that do more than return: the
\* library's fireContentLoadedEvent, and the user function HSignal, during
\* which the platform raises the window load signal (as long as MaxSignals
\* allows).
RECURSIVE dispatchEvent(_, _, _)
RECURSIVE fireContentLoadedEvent(_)

\* handler.call(this, event), made by responder r.
callHandler(m, r, this, event, currentTarget) ==
  IF r.handler.inst # 0
  THEN handleEvent(m, instances[r.handler.inst], event, currentTarget, r)
  ELSE IF r.handler.fn = "fireContentLoadedEvent"
  THEN fireContentLoadedEvent(m)
  ELSE IF r.handler.fn = "HSignal" /\ m.signals < MaxSignals
  THEN dispatchEvent(
         [m EXCEPT !.log = Append(@, Invocation(r.handler.fn, this, event, NoNode,
                                                currentTarget, r)),
                   !.signals = @ + 1],
         window, platformEvent(load))
  ELSE userFunction(
         [m EXCEPT !.log = Append(@, Invocation(r.handler.fn, this, event, NoNode,
                                                currentTarget, r))],
         r.handler.fn, this,
         IF event.eventName # NoName THEN event.eventName ELSE event.type)

\* The TypeError a responder raises when it reads .element of undefined.
TypeError == "TypeError"

\* The responder for a simulated name without the comparison of the event's
\* eventName tag with the name it was created for.
customResponder_AnyName(m, r, event, currentTarget) ==
  LET this == IF r.uid \in DOMAIN m.cache THEN m.cache[r.uid].element ELSE NoNode
  IN IF event.eventName = NoName THEN m
     ELSE callHandler(m, r, this, event, currentTarget)

\* The responder for a simulated name with the call of the handler in a
\* try block whose catch does nothing.
customResponder_Swallow(m, r, event, currentTarget) ==
  LET this == IF r.uid \in DOMAIN m.cache THEN m.cache[r.uid].element ELSE NoNode
  IN IF event.eventName = NoName THEN m
     ELSE IF event.eventName # r.eventName THEN m
     ELSE [callHandler(m, r, this, event, currentTarget) EXCEPT !.raised = NoError]

\* The closure returned by createResponderForCustomEvent, called with event.
customResponder(m, r, event, currentTarget) ==
  LET this == IF r.uid \in DOMAIN m.cache THEN m.cache[r.uid].element ELSE NoNode
  IN IF event.eventName = NoName THEN m
     ELSE IF event.eventName # r.eventName THEN m
     ELSE callHandler(m, r, this, event, currentTarget)

\* The native responder calling the handler with the node the event occurred
\* on as context, instead of the element of the registry.
nativeResponder_TargetContext(m, r, event, currentTarget) ==
  IF r.uid \notin DOMAIN m.cache
  THEN [m EXCEPT !.log = Append(@, Invocation(TypeError, NoNode, event, NoNode,
                                              currentTarget, r))]
  ELSE callHandler(m, r, event.target, event, currentTarget)

\* The closure returned by createResponder for a native name, called with event.
nativeResponder(m, r, event, currentTarget) ==
  IF r.uid \notin DOMAIN m.cache
  THEN [m EXCEPT !.log = Append(@, Invocation(TypeError, NoNode, event, NoNode,
                                              currentTarget, r)),
                 !.raised = TypeError]
  ELSE callHandler(m, r, m.cache[r.uid].element, event, currentTarget)

\* A function attached with addEventListener directly, not through observe:
\* the platform calls it with the node it is attached to as context.
RawListener(handler) ==
  [uid |-> UNDEFINED, eventName |-> NoName, handler |-> handler,
   custom |-> FALSE, gen |-> 0]

\* A listener called by the platform.
respond(m, r, event, currentTarget) ==
  IF r = RawListener(r.handler)
  THEN callHandler(m, r, currentTarget, event, currentTarget)
  ELSE IF r.custom THEN customResponder(m, r, event, currentTarget)
  ELSE nativeResponder(m, r, event, currentTarget)

(***************************************************************************)
(* The platform's dispatch: at each node of the path, the listeners of the *)
(* event's type that were attached when the node was reached and are still *)
(* attached at their turn, in the order they were added.                   *)
(***************************************************************************)
\* An exception that propagates out of a listener is reported at the
\* platform's top level, and the dispatch goes on.
reportError(m) ==
  IF m.raised = NoError THEN m
  ELSE [m EXCEPT !.uncaught = Append(@, m.raised), !.raised = NoError]

RECURSIVE runListeners(_, _, _, _, _)
runListeners(m, snapshot, i, currentTarget, event) ==
  IF i > Len(snapshot) THEN m
  ELSE LET l == snapshot[i]
           attached == \E j \in 1..Len(m.listeners[currentTarget]) :
                          m.listeners[currentTarget][j] = l
           m1 == IF l.type = event.type /\ attached
                 THEN reportError(respond(m, l.listener, event, currentTarget))
                 ELSE m
       IN runListeners(m1, snapshot, i + 1, currentTarget, event)

RECURSIVE propagate(_, _, _, _)
propagate(m, path, k, event) ==
  IF k > Len(path) \/ (k > 1 /\ ~event.bubbles) \/ m.flags.propagationStopped
  THEN m
  ELSE propagate(runListeners(m, m.listeners[path[k]], 1, path[k], event),
                 path, k + 1, event)

\* The dispatch of an event has ended: its properties are those of the event
\* the caller holds, and the event that was being dispatched when this one
\* was created, if there is one, is being dispatched again.
endDispatch(m, outer) == [m EXCEPT !.returned = m.flags, !.flags = outer]

\* target.dispatchEvent(event), for a new event.
dispatchEvent(m, target, event) ==
  endDispatch(propagate([m EXCEPT !.flags = NewEvent], EventPath(target), 1,
                        [event EXCEPT !.target = target]),
              m.flags)

\* getFireTarget(element): every node of the platform has dispatchEvent.
getFireTarget(n) == n

\* The event object of fire without the default of bubble: an undefined
\* bubble argument is passed to initEvent as it is, and counts as false.
fireEvent_NoDefault(eventName, memo, bubble) ==
  [type |-> dataavailable, bubbles |-> bubble = "true", eventName |-> eventName,
   memo |-> IF falsy(memo) THEN EmptyObject ELSE memo, target |-> NoNode]

\* The event object fire creates: createEvent, initEvent('dataavailable',
\* bubble, true), eventName, memo || {}.
fireEvent(eventName, memo, bubble) ==
  [type |-> dataavailable,
   bubbles |-> IF bubble = NoBubble THEN TRUE ELSE bubble = "true",
   eventName |-> eventName,
   memo |-> IF falsy(memo) THEN EmptyObject ELSE memo, target |-> NoNode]

\* fire that returns before the event is dispatched (the dispatch is put off).
fire_Deferred(m, n, eventName, memo, bubble) == m

\* fire(element, eventName, memo, bubble): the machine after the dispatch.
fire(m, n, eventName, memo, bubble) ==
  dispatchEvent(m, getFireTarget(n), fireEvent(eventName, memo, bubble))

\* fireContentLoadedEvent that sets document.loaded only after it has fired.
fireContentLoadedEvent_FlagAfter(m) ==
  IF m.loaded THEN m
  ELSE [fire([m EXCEPT !.fired = @ + 1], document, domloaded, NoMemo, NoBubble)
          EXCEPT !.loaded = TRUE]

\* fireContentLoadedEvent(): the guard on document.loaded, the flag, and
\* document.fire('dom:loaded').
fireContentLoadedEvent(m) ==
  IF m.loaded THEN m
  ELSE fire([m EXCEPT !.loaded = TRUE, !.fired = @ + 1], document, domloaded,
            NoMemo, NoBubble)

(***************************************************************************)
(* Event.Handler and Event.on.                                             *)
(***************************************************************************)
\* new Event.Handler that takes the bound function of the first Event.Handler
\* instead of binding handleEvent to the new object.
newHandler_SharedHandler(k, n, eventName, selector, callback) ==
  [element |-> n, eventName |-> eventName, selector |-> selector,
   callback |-> callback, handler |-> BoundHandler(1)]

\* new Event.Handler(element, eventName, selector, callback), the k-th one.
newHandler(k, n, eventName, selector, callback) ==
  [element |-> n, eventName |-> eventName, selector |-> selector,
   callback |-> callback, handler |-> BoundHandler(k)]

\* start that returns without observing.
start_NotStarted(m, self) == m

\* Event.Handler#start.
start(m, self) == observe(m, self.element, self.eventName, self.handler)

\* stop that binds handleEvent anew instead of using this.handler: the
\* function it passes is one that was never observed.
stop_Rebind(m, self) ==
  stopObserving(m, self.element, self.eventName,
                [fn |-> "handleEvent", inst |-> 0 - self.handler.inst])

\* Event.Handler#stop.
stop(m, self) == stopObserving(m, self.element, self.eventName, self.handler)

\* Object.isFunction(x), for an argument of on.
isFunction(x) == x \in Callbacks

\* The Event.Handler that on(element, eventName, selector, callback) creates
\* as the k-th one; callback is NoCallback when three arguments are given.
NoCallback == "undefined"
onHandler(k, n, eventName, selector, callback) ==
  IF isFunction(selector) /\ callback = NoCallback
  THEN newHandler(k, n, eventName, NoSelector, selector)
  ELSE newHandler(k, n, eventName, selector, callback)

(***************************************************************************)
(* The state machine.                                                      *)
(***************************************************************************)
\* The nodes that calls are made on and events are dispatched on.
ObservedNodes == {"root", "li"}
ObservedNames == {dataavailable, nsfoo, nsbar}
DelegationRoots == {"root", "li"}
DelegationNames == {click, nsfoo}
Targets == {"text", "span", "li", "root"}

\* The identity a node has now (UNDEFINED if none was assigned).
UidOf(n) == IF n = window THEN 0 ELSE prototypeUID[n]

\* The bindings of node n under eventName in registry c.
BucketIn(c, uids, n, eventName) ==
  LET uid == IF n = window THEN 0 ELSE uids[n]
  IN IF uid \in DOMAIN c /\ eventName \in DOMAIN c[uid].buckets
     THEN c[uid].buckets[eventName]
     ELSE <<>>
Bucket(n, eventName) == BucketIn(cache, prototypeUID, n, eventName)

\* The handlers of a sequence of bindings, in order.
HandlersOf(entries) == [i \in 1..Len(entries) |-> entries[i].handler]

\* True if handler is bound to (n, eventName).
IsBound(n, eventName, handler) ==
  \E i \in 1..Len(Bucket(n, eventName)) : Bucket(n, eventName)[i].handler = handler

\* The number of bindings in the registry.
BindingCount ==
  Cardinality({<<u, e, i>> \in (DOMAIN cache) \X EventNames \X (1..MaxBindings) :
                 e \in DOMAIN cache[u].buckets /\ i <= Len(cache[u].buckets[e])})

NoEvent == platformEvent(NoName)

\* The number of listeners attached to the platform.
RECURSIVE SumLen(_, _)
SumLen(f, S) ==
  IF S = {} THEN 0
  ELSE LET x == CHOOSE y \in S : TRUE IN Len(f[x]) + SumLen(f, S \ {x})
ListenerCount(ls) == SumLen(ls, Nodes)

\* The record of a call: the operation, its arguments (element, eventName,
\* handler, or the Event.Handler inst it is made on), the node and the event
\* it returns, whether it changed the registry, by how much it changed the
\* number of attached listeners and the number of stores, and the exceptions
\* that reached the platform's top level.
Call(op, n, eventName, handler, inst, ret, event, m) ==
  [op |-> op, element |-> n, eventName |-> eventName, handler |-> handler,
   inst |-> inst, ret |-> ret, event |-> event,
   changed |-> m.cache # cache,
   delta |-> ListenerCount(m.listeners) - ListenerCount(listeners),
   stored |-> Cardinality(m.stores) - Cardinality(stores),
   uncaught |-> m.uncaught, flags |-> m.returned]

Commit(m) ==
  /\ prototypeUID' = m.uid
  /\ StorageUID' = m.UID
  /\ stores' = m.stores
  /\ hashes' = m.hashes
  /\ cache' = m.cache
  /\ listeners' = m.listeners
  /\ log' = m.log
  /\ loaded' = m.loaded
  /\ fired' = m.fired
  /\ signals' = m.signals
  /\ UNCHANGED readyState

\* The state after the library was evaluated in a document that was complete:
\* dom:loaded was fired at once, before any handler could observe it.
Init ==
  /\ prototypeUID = [n \in Nodes \ {window} |-> UNDEFINED]
  /\ StorageUID = 1
  /\ stores = {}
  /\ hashes = <<>>
  /\ cache = <<>>
  /\ listeners = [n \in Nodes |-> <<>>]
  /\ instances = <<>>
  /\ lifecycle = <<>>
  /\ last = [op |-> "load", element |-> NoNode, eventName |-> NoName,
             handler |-> NoHandler, inst |-> 0, ret |-> NoNode,
             event |-> NoEvent, changed |-> FALSE, delta |-> 0,
             stored |-> 0, uncaught |-> <<>>, flags |-> NewEvent]
  /\ log = <<>>
  /\ readyState = "complete"
  /\ loaded = TRUE
  /\ fired = 1
  /\ signals = 0

\* Event.observe(n, eventName, handler)
Observe(n, eventName, handler) ==
  /\ BindingCount < MaxBindings \/ IsBound(n, eventName, handler)
  /\ \E m \in {observe(Machine, n, eventName, handler)} :
        /\ Commit(m)
        /\ last' = Call("observe", n, eventName, handler, 0, n, NoEvent, m)
  /\ UNCHANGED <<instances, lifecycle>>

\* Event.stopObserving(n), Event.stopObserving(n, eventName) and
\* Event.stopObserving(n, eventName, handler)
StopObserving(n, eventName, handler) ==
  /\ \E m \in {stopObserving(Machine, n, eventName, handler)} :
        /\ Commit(m)
        /\ last' = Call("stopObserving", n, eventName, handler, 0, n, NoEvent, m)
  /\ UNCHANGED <<instances, lifecycle>>

\* Event.fire(n, eventName, memo, bubble)
Fire(n, eventName, memo, bubble) ==
  /\ \E m \in {fire(Machine, n, eventName, memo, bubble)} :
        /\ Commit(m)
        /\ last' = Call("fire", n, eventName, NoHandler, 0, NoNode,
                        [fireEvent(eventName, memo, bubble) EXCEPT !.target = n],
                        m) @@ [bubble |-> bubble]
  /\ UNCHANGED <<instances, lifecycle>>

\* The platform raises a native event of the given type on n.
Dispatch(n, type) ==
  /\ \E m \in {dispatchEvent(Machine, n, platformEvent(type))} :
        /\ Commit(m)
        /\ last' = Call("dispatch", n, type, NoHandler, 0, NoNode,
                        [platformEvent(type) EXCEPT !.target = n], m)
  /\ UNCHANGED <<instances, lifecycle>>

\* new Event.Handler(n, eventName, selector, callback)
NewHandler(n, eventName, selector, callback) ==
  /\ Len(instances) < MaxInstances
  /\ instances' = Append(instances,
       newHandler(Len(instances) + 1, n, eventName, selector, callback))
  /\ lifecycle' = Append(lifecycle, "new")
  /\ last' = Call("new", n, eventName, NoHandler, Len(instances) + 1, NoNode,
                  NoEvent, Machine)
  /\ log' = <<>>
  /\ UNCHANGED <<prototypeUID, StorageUID, stores, hashes, cache, listeners,
                 readyState, loaded, fired, signals>>

\* Event.on(n, eventName, selector, callback)
On(n, eventName, selector, callback) ==
  /\ Len(instances) < MaxInstances
  /\ \E self \in {onHandler(Len(instances) + 1, n, eventName, selector, callback)} :
       \E m \in {start(Machine, self)} :
        /\ instances' = Append(instances, self)
        /\ Commit(m)
        /\ last' = Call("on", n, eventName, NoHandler, Len(instances) + 1, NoNode,
                        NoEvent, m)
  /\ lifecycle' = Append(lifecycle, "start")

\* Event.Handler#start on the k-th Event.Handler
Start(k) ==
  /\ \E m \in {start(Machine, instances[k])} :
        /\ Commit(m)
        /\ last' = Call("start", instances[k].element, instances[k].eventName,
                        NoHandler, k, NoNode, NoEvent, m)
  /\ lifecycle' = [lifecycle EXCEPT ![k] = "start"]
  /\ UNCHANGED instances

\* Event.Handler#stop on the k-th Event.Handler
Stop(k) ==
  /\ \E m \in {stop(Machine, instances[k])} :
        /\ Commit(m)
        /\ last' = Call("stop", instances[k].element, instances[k].eventName,
                        NoHandler, k, NoNode, NoEvent, m)
  /\ lifecycle' = [lifecycle EXCEPT ![k] = "stop"]
  /\ UNCHANGED instances

ObserveStep ==
  \E n \in ObservedNodes, e \in ObservedNames, h \in PlainHandlers :
    Observe(n, e, h)
StopObservingStep ==
  \E n \in ObservedNodes, e \in ObservedNames \cup {NoName},
     h \in PlainHandlers \cup {NoHandler} :
    /\ e = NoName => h = NoHandler
    /\ StopObserving(n, e, h)
FireStep ==
  \E n \in ObservedNodes, e \in ObservedNames \cap CustomNames,
     b \in {NoBubble, "false"} : Fire(n, e, NoMemo, b)
DispatchStep ==
  \E n \in ObservedNodes, e \in ObservedNames \cap NativeNames : Dispatch(n, e)

Next == ObserveStep \/ StopObservingStep \/ FireStep \/ DispatchStep

Spec == Init /\ [][Next]_vars

NewHandlerStep ==
  \E n \in DelegationRoots, e \in DelegationNames,
     s \in Selectors \cup {NoSelector}, cb \in Callbacks : NewHandler(n, e, s, cb)
OnStep ==
  \E n \in DelegationRoots, e \in DelegationNames :
    \/ \E s \in Selectors, cb \in Callbacks : On(n, e, s, cb)
    \/ \E cb \in Callbacks : On(n, e, cb, NoCallback)
StartStep == \E k \in 1..Len(instances) : Start(k)
StopStep == \E k \in 1..Len(instances) : Stop(k)
DelegFireStep ==
  \E n \in Targets, b \in {NoBubble, "false"} : Fire(n, nsfoo, NoMemo, b)
DelegDispatchStep == \E n \in Targets : Dispatch(n, click)

NextDeleg ==
  NewHandlerStep \/ OnStep \/ StartStep \/ StopStep \/ DelegFireStep
  \/ DelegDispatchStep

SpecDeleg == Init /\ [][NextDeleg]_vars

(***************************************************************************)
(* Vocabulary of the properties.                                           *)
(***************************************************************************)
\* The call just made dispatched an event.
IsDispatch(call) == call.op \in {"fire", "dispatch"}

\* The logical name of a dispatched event: the eventName tag of a fired
\* event, the type of a native one.
LogicalName(event) ==
  IF event.eventName # NoName THEN event.eventName ELSE event.type

\* The nodes an event dispatched on target visits.
Visited(target, event) ==
  IF event.bubbles THEN {EventPath(target)[i] : i \in 1..Len(EventPath(target))}
  ELSE {target}

\* The invocations in lg made by the responders of bucket (n, eventName).
LogOf(lg, n, eventName) ==
  SelectSeq(lg, LAMBDA x : x.currentTarget = n /\ x.bucket = eventName)

\* The handlers on whose behalf the invocations of lg were made, in order.
LogHandlers(lg) == [i \in 1..Len(lg) |-> lg[i].handler]

\* The responders attached to node n in the listener lists ls.
Attached(ls, n) == {ls[n][i].listener : i \in 1..Len(ls[n])}

\* The number of bindings of node n.
NodeBindingCount(n) ==
  IF UidOf(n) \in DOMAIN cache
  THEN Cardinality({<<e, i>> \in (DOMAIN cache[UidOf(n)].buckets) \X (1..MaxBindings) :
                      i <= Len(cache[UidOf(n)].buckets[e])})
  ELSE 0

\* True if node n has an entry in registry c.
HasEntry(c, uids, n) == (IF n = window THEN 0 ELSE uids[n]) \in DOMAIN c

(***************************************************************************)
(* C1.  After observe(N, E, H) followed by stopObserving(N, E, H): the     *)
(* registry holds no binding for H under (N, E) and no responder of that   *)
(* binding stays attached to N; if H was the only binding of N the         *)
(* registry holds no entry for N; and a dispatch only ever invokes, at a   *)
(* node and for an event name, handlers that are bound there, so H is not  *)
(* invoked for E at N once it has been removed.                            *)
(***************************************************************************)
C1_StopObservingStep ==
  (last'.op = "stopObserving" /\ last'.handler # NoHandler) =>
    LET n == last'.element
        e == last'.eventName
        h == last'.handler
        after == BucketIn(cache', prototypeUID', n, e)
    IN /\ \A i \in 1..Len(after) : after[i].handler # h
       /\ \A r \in Attached(listeners', n) : ~(r.eventName = e /\ r.handler = h)
       /\ (IsBound(n, e, h) /\ NodeBindingCount(n) = 1)
            => ~HasEntry(cache', prototypeUID', n)

C1_DispatchStep ==
  IsDispatch(last') =>
    \A i \in 1..Len(log') :
      IsBound(log'[i].currentTarget, log'[i].bucket, log'[i].handler)

\* C1: stopObserving(N, E, H) removes the binding, its responder and, with the
\* last binding, the entry of N; a dispatch invokes bound handlers only.
C1_ObserveThenStopObserving == [][C1_StopObservingStep /\ C1_DispatchStep]_vars

\* stopObserving(N, E, H) has just removed the only binding of N.
C1_Witness ==
  /\ last.op = "stopObserving"
  /\ last.handler # NoHandler
  /\ last.delta = -1
  /\ ~HasEntry(cache, prototypeUID, last.element)

(***************************************************************************)
(* C2.  observe(N, E, H) with H already bound to (N, E) leaves the         *)
(* registry and the platform listener lists unchanged; a bucket never      *)
(* holds two bindings of one handler; and a dispatch of E that visits N    *)
(* invokes each handler bound to (N, E) exactly once.                      *)
(***************************************************************************)
C2_ObserveStep ==
  (last'.op = "observe" /\ IsBound(last'.element, last'.eventName, last'.handler))
    => (cache' = cache /\ listeners' = listeners)

C2_OneBinding ==
  \A n \in Nodes, e \in EventNames, h \in PlainHandlers :
    Cardinality({i \in 1..Len(Bucket(n, e)) : Bucket(n, e)[i].handler = h}) <= 1

C2_DispatchStep ==
  IsDispatch(last') =>
    \A n \in Visited(last'.element, last'.event), h \in PlainHandlers :
      IsBound(n, LogicalName(last'.event), h) =>
        Cardinality({i \in 1..Len(log') :
                       /\ log'[i].currentTarget = n
                       /\ log'[i].bucket = LogicalName(last'.event)
                       /\ log'[i].handler = h /\ log'[i].fn = h.fn}) = 1

\* C2: a second observe(N, E, H) changes nothing, a bucket holds a handler at
\* most once, and a dispatch invokes each bound handler exactly once.
C2_ObserveIdempotent ==
  []C2_OneBinding /\ [][C2_ObserveStep /\ C2_DispatchStep]_vars

\* observe has just been called with a handler that was already bound.
C2_Witness ==
  /\ last.op = "observe"
  /\ ~last.changed
  /\ last.delta = 0
  /\ IsBound(last.element, last.eventName, last.handler)

(***************************************************************************)
(* C3.  Handlers run in the order of their active registrations: a         *)
(* successful observe appends its handler to the bucket, stopObserving     *)
(* keeps the relative order of the bindings it leaves, and a dispatch that *)
(* visits N invokes the handlers bound to (N, E) in the order of the       *)
(* bucket.                                                                 *)
(***************************************************************************)
\* The position of handler h in the sequence of bindings entries (0 if none).
PositionOf(entries, h) ==
  IF \E i \in 1..Len(entries) : entries[i].handler = h
  THEN CHOOSE i \in 1..Len(entries) : entries[i].handler = h
  ELSE 0

C3_ObserveStep ==
  (last'.op = "observe" /\ ~IsBound(last'.element, last'.eventName, last'.handler))
    => HandlersOf(BucketIn(cache', prototypeUID', last'.element, last'.eventName))
         = Append(HandlersOf(Bucket(last'.element, last'.eventName)), last'.handler)

C3_StopObservingStep ==
  last'.op = "stopObserving" =>
    \A n \in Nodes, e \in EventNames :
      LET after == BucketIn(cache', prototypeUID', n, e)
      IN \A i, j \in 1..Len(after) :
           i < j => /\ PositionOf(Bucket(n, e), after[i].handler) > 0
                    /\ PositionOf(Bucket(n, e), after[i].handler)
                         < PositionOf(Bucket(n, e), after[j].handler)

C3_DispatchStep ==
  IsDispatch(last') =>
    \A n \in Visited(last'.element, last'.event) :
      LogHandlers(LogOf(log', n, LogicalName(last'.event)))
        = HandlersOf(Bucket(n, LogicalName(last'.event)))

\* C3: the handlers of a bucket are invoked in the order of their active
\* registrations.
C3_RegistrationOrder ==
  [][C3_ObserveStep /\ C3_StopObservingStep /\ C3_DispatchStep]_vars

\* A dispatch has just invoked two handlers of one bucket.
C3_Witness ==
  /\ IsDispatch(last)
  /\ \E n \in Nodes : Len(LogOf(log, n, LogicalName(last.event))) >= 2

(***************************************************************************)
(* C4.  fire(N, name) invokes, among the handlers observed under simulated *)
(* names, only those observed under exactly name, and only on N and (when  *)
(* bubbling) its ancestors.                                                *)
(***************************************************************************)
C4_SimulatedNameIsolation ==
  last.op = "fire" =>
    \A i \in 1..Len(log) :
      isCustomEvent(log[i].bucket) =>
        /\ log[i].bucket = last.eventName
        /\ log[i].currentTarget \in Visited(last.element, last.event)

\* fire has just invoked a handler of its name while a handler observed
\* under another simulated name is bound on a node the event visited.
C4_Witness ==
  /\ last.op = "fire"
  /\ \E i \in 1..Len(log) : log[i].bucket = last.eventName
  /\ \E n \in Visited(last.element, last.event), e \in CustomNames :
       e # last.eventName /\ Len(Bucket(n, e)) > 0

(***************************************************************************)
(* C5.  A handler observed under the native carrier name "dataavailable"   *)
(* is not invoked when fire dispatches a simulated event.                  *)
(***************************************************************************)
C5_CarrierListenerNotInvoked ==
  last.op = "fire" => \A i \in 1..Len(log) : log[i].bucket # dataavailable

(***************************************************************************)
(* C6.  stopObserving(N) without event name and handler leaves no registry *)
(* entry for N and no responder attached to N, and a dispatch invokes no   *)
(* handler at a node that has no registry entry.                           *)
(***************************************************************************)
C6_StopObservingStep ==
  (last'.op = "stopObserving" /\ last'.eventName = NoName) =>
    /\ ~HasEntry(cache', prototypeUID', last'.element)
    /\ listeners'[last'.element] = <<>>

C6_DispatchStep ==
  IsDispatch(last') =>
    \A i \in 1..Len(log') : HasEntry(cache, prototypeUID, log'[i].currentTarget)

\* C6: stopObserving(N) leaves no entry and no attached responder for N, and
\* no handler is invoked at a node without entry.
C6_BulkTeardown == [][C6_StopObservingStep /\ C6_DispatchStep]_vars

\* stopObserving(N) has just detached two responders.
C6_Witness ==
  /\ last.op = "stopObserving"
  /\ last.eventName = NoName
  /\ last.delta <= -2
  /\ last.changed

(***************************************************************************)
(* Vocabulary of the delegation properties.                                *)
(***************************************************************************)
\* The nodes from d up to r, both included (r is d or an ancestor of d).
ChainTo(d, r) ==
  LET path == EventPath(d)
  IN SubSeq(path, 1, CHOOSE i \in 1..Len(path) : path[i] = r)

\* The nearest element of the chain from d up to r that matches selector, or
\* NoNode if none does.
NearestMatch(d, r, selector) ==
  LET chain == ChainTo(d, r)
      hits == {i \in 1..Len(chain) : isElement(chain[i]) /\ matches(chain[i], selector)}
  IN IF hits = {} THEN NoNode
     ELSE chain[CHOOSE i \in hits : \A j \in hits : i <= j]

\* The k-th Event.Handler is observing, has a selector, and the event just
\* dispatched is one of its event name that reached its element.
Delegated(k) ==
  /\ IsDispatch(last)
  /\ instances[k].selector # NoSelector
  /\ IsBound(instances[k].element, instances[k].eventName, instances[k].handler)
  /\ LogicalName(last.event) = instances[k].eventName
  /\ instances[k].element \in Visited(last.element, last.event)

\* The invocations made on behalf of the k-th Event.Handler in the last call.
CallbacksOf(k) == SelectSeq(log, LAMBDA x : x.handler = instances[k].handler)

(***************************************************************************)
(* C7.  Delegation, matching case: when an event of name E reaches R from  *)
(* the target D and M is the nearest node of the chain from D up to R that *)
(* matches S, the callback of on(R, E, S, cb) is invoked exactly once,     *)
(* with (event, M) and with R as context.                                  *)
(***************************************************************************)
C7_DelegationMatch ==
  \A k \in 1..Len(instances) :
    (Delegated(k)
       /\ NearestMatch(last.element, instances[k].element, instances[k].selector)
            # NoNode)
    => /\ Len(CallbacksOf(k)) = 1
       /\ CallbacksOf(k)[1].fn = instances[k].callback
       /\ CallbacksOf(k)[1].this = instances[k].element
       /\ CallbacksOf(k)[1].event = last.event
       /\ CallbacksOf(k)[1].element
            = NearestMatch(last.element, instances[k].element, instances[k].selector)

\* A callback has just been invoked with a node strictly between the target
\* of the event and the element of its Event.Handler.
C7_Witness ==
  /\ IsDispatch(last)
  /\ \E i \in 1..Len(log) :
       /\ log[i].handler.inst > 0
       /\ instances[log[i].handler.inst].selector # NoSelector
       /\ log[i].element # last.element
       /\ log[i].element # log[i].this
       /\ log[i].element
            = NearestMatch(last.element, log[i].this,
                           instances[log[i].handler.inst].selector)

(***************************************************************************)
(* C8.  Delegation bounded by the root: if no node of the chain from the   *)
(* target up to and including R matches S, the callback of on(R, E, S, cb) *)
(* is not invoked, also when an ancestor above R matches S.                *)
(***************************************************************************)
C8_DelegationBoundedByRoot ==
  \A k \in 1..Len(instances) :
    (Delegated(k)
       /\ NearestMatch(last.element, instances[k].element, instances[k].selector)
            = NoNode)
    => Len(CallbacksOf(k)) = 0

(***************************************************************************)
(* C9.  Lifecycle of an Event.Handler: the registry holds exactly one      *)
(* binding of its bound handler, under (element, eventName), with one      *)
(* responder attached, if the last call made on it was start (or it was    *)
(* created by on), and none if it was stop or if no call was made; start   *)
(* on an observing Event.Handler changes nothing.                          *)
(***************************************************************************)
\* The places (uid, event name, index) where handler h is bound.
BindingsOf(h) ==
  {<<u, e, i>> \in (DOMAIN cache) \X EventNames \X (1..(MaxBindings + MaxInstances)) :
     /\ e \in DOMAIN cache[u].buckets
     /\ i <= Len(cache[u].buckets[e])
     /\ cache[u].buckets[e][i].handler = h}

\* The listeners (node, index) whose responder was created for handler h.
ListenersOf(h) ==
  {<<n, i>> \in Nodes \X (1..(MaxBindings + MaxInstances)) :
     i <= Len(listeners[n]) /\ listeners[n][i].listener.handler = h}

C9_Lifecycle ==
  \A k \in 1..Len(instances) :
    IF lifecycle[k] = "start"
    THEN /\ Cardinality(BindingsOf(instances[k].handler)) = 1
         /\ IsBound(instances[k].element, instances[k].eventName,
                    instances[k].handler)
         /\ Cardinality(ListenersOf(instances[k].handler)) = 1
    ELSE /\ BindingsOf(instances[k].handler) = {}
         /\ ListenersOf(instances[k].handler) = {}

C9_StartStep ==
  (last'.op = "start" /\ lifecycle[last'.inst] = "start")
    => (cache' = cache /\ listeners' = listeners)

\* C9: an Event.Handler has exactly one binding after start and none after
\* stop or before any call; a second start changes nothing.
C9_HandlerLifecycle == []C9_Lifecycle /\ [][C9_StartStep]_vars

\* start has just been called on an Event.Handler that was observing.
C9_Witness ==
  /\ last.op = "start"
  /\ ~last.changed
  /\ last.delta = 0
  /\ lifecycle[last.inst] = "start"
  /\ Cardinality(BindingsOf(instances[last.inst].handler)) = 1

(***************************************************************************)
(* C10.  stopObserving, in each of its three forms, changes neither the    *)
(* registry nor the listener lists when nothing matches and returns the    *)
(* node; and calling it a second time with the same arguments changes      *)
(* nothing the first call left.                                            *)
(***************************************************************************)
\* The arguments stopObserving is called with: (element), (element,
\* eventName) or (element, eventName, handler).
StopObservingArguments ==
  {a \in ObservedNodes \X (ObservedNames \cup {NoName})
         \X (PlainHandlers \cup {NoHandler}) :
     a[2] = NoName => a[3] = NoHandler}

\* Nothing in the registry matches the arguments.
NothingMatches(n, e, h) ==
  IF e = NoName THEN ~HasEntry(cache, prototypeUID, n)
  ELSE IF h = NoHandler THEN Len(Bucket(n, e)) = 0
  ELSE ~IsBound(n, e, h)

C10_StopObservingStep ==
  (last'.op = "stopObserving"
     /\ NothingMatches(last'.element, last'.eventName, last'.handler))
    => (cache' = cache /\ listeners' = listeners /\ last'.ret = last'.element)

C10_Repeatable ==
  \A a \in StopObservingArguments :
    LET once == stopObserving(Machine, a[1], a[2], a[3])
        twice == stopObserving(once, a[1], a[2], a[3])
    IN twice.cache = once.cache /\ twice.listeners = once.listeners

\* C10: a stopObserving call that matches nothing changes nothing, and a
\* repeated stopObserving call changes nothing more.
C10_StopObservingNoOp == []C10_Repeatable /\ [][C10_StopObservingStep]_vars

\* stopObserving has just been called with an event name for a node that has
\* bindings, none of which matched.
C10_Witness ==
  /\ last.op = "stopObserving"
  /\ last.eventName # NoName
  /\ ~last.changed
  /\ last.delta = 0
  /\ HasEntry(cache, prototypeUID, last.element)

(***************************************************************************)
(* Calls that name the node by its id: $ resolves the id, and an id that   *)
(* no element has resolves to null.                                        *)
(***************************************************************************)
\* The element arguments of the calls: a node, or a string taken as an id.
ById(id) == [id |-> id]
\* Object.isString(element).
isString(x) == "id" \in DOMAIN x
\* The id that no element of the document has.
NoSuchId == "nosuch"
\* document.getElementById(id): every element of the model has its name as
\* id; null when no element has the id.
getElementById(id) == IF id \in Elements THEN id ELSE NoNode

\* $(element).
dollar(x) == IF isString(x) THEN getElementById(x.id) ELSE x.node

\* Reading a property of null (null._prototypeUID in getUniqueElementID,
\* null.dispatchEvent in fire) raises a TypeError.
readsNull(n) == n = NoNode

\* observe(element, eventName, handler) as called: [1] the node returned, or
\* TypeError when the call raised it, [2] the machine.
observeCall(m, x, eventName, handler) ==
  LET n == dollar(x)
  IN IF readsNull(n) THEN <<TypeError, m>>
     ELSE <<n, observe(m, n, eventName, handler)>>

\* stopObserving(element, eventName, handler) as called.
stopObservingCall(m, x, eventName, handler) ==
  LET n == dollar(x)
  IN IF readsNull(n) THEN <<TypeError, m>>
     ELSE <<n, stopObserving(m, n, eventName, handler)>>

\* fire(element, eventName, memo, bubble) as called: [1] the event returned
\* (NoEvent when the call raised a TypeError), [2] the machine, [3] TypeError
\* when the call raised it.
fireCall(m, x, eventName, memo, bubble) ==
  LET n == getFireTarget(dollar(x))
  IN IF readsNull(n) THEN <<NoEvent, m, TypeError>>
     ELSE <<[fireEvent(eventName, memo, bubble) EXCEPT !.target = n],
            fire(m, n, eventName, memo, bubble), NoNode>>

\* The ids and names the calls by id are made with.
CallIds == {"root", NoSuchId}
CallNames == {nsfoo, click}

\* Event.observe(id, eventName, handler)
ObserveById(id, eventName, handler) ==
  /\ BindingCount < MaxBindings
       \/ (dollar(ById(id)) # NoNode /\ IsBound(dollar(ById(id)), eventName, handler))
       \/ dollar(ById(id)) = NoNode
  /\ \E c \in {observeCall(Machine, ById(id), eventName, handler)} :
        /\ Commit(c[2])
        /\ last' = Call("observe", dollar(ById(id)), eventName, handler, 0, c[1],
                        NoEvent, c[2])
  /\ UNCHANGED <<instances, lifecycle>>

\* Event.stopObserving(id), (id, eventName) and (id, eventName, handler)
StopObservingById(id, eventName, handler) ==
  /\ \E c \in {stopObservingCall(Machine, ById(id), eventName, handler)} :
        /\ Commit(c[2])
        /\ last' = Call("stopObserving", dollar(ById(id)), eventName, handler, 0,
                        c[1], NoEvent, c[2])
  /\ UNCHANGED <<instances, lifecycle>>

\* Event.fire(id, eventName)
FireById(id, eventName) ==
  /\ \E c \in {fireCall(Machine, ById(id), eventName, NoMemo, NoBubble)} :
        /\ Commit(c[2])
        /\ last' = Call("fire", dollar(ById(id)), eventName, NoHandler, 0,
                        c[3], c[1], c[2])
  /\ UNCHANGED <<instances, lifecycle>>

NextById ==
  \/ \E id \in CallIds, e \in CallNames, h \in PlainHandlers :
       ObserveById(id, e, h)
  \/ \E id \in CallIds, e \in CallNames \cup {NoName},
        h \in PlainHandlers \cup {NoHandler} :
       /\ e = NoName => h = NoHandler
       /\ StopObservingById(id, e, h)
  \/ \E id \in CallIds : FireById(id, nsfoo)

SpecById == Init /\ [][NextById]_vars

(***************************************************************************)
(* C11.  observe, stopObserving and fire, called with an id that no        *)
(* element has, do not raise and leave the registry unchanged.             *)
(***************************************************************************)
\* C11: a call of observe, stopObserving or fire whose node is missing raises
\* nothing and changes nothing.
C11_MissingNodeNoOp ==
  (last.op \in {"observe", "stopObserving", "fire"} /\ last.element = NoNode)
    => (last.ret # TypeError /\ ~last.changed /\ last.delta = 0)

(***************************************************************************)
(* Element.purge (dom.js) and the specification of the registry's whole    *)
(* life: plain handlers, one Event.Handler, dispatches and purges.         *)
(***************************************************************************)
\* Largest value of Element.Storage.UID at which purge is still called.
MaxUID == 3

\* element.getElementsByTagName('*'): the descendants, in document order.
descendants(n) ==
  CASE n = "outer" -> <<"root", "li", "span">>
    [] n = "root" -> <<"li", "span">>
    [] n = "li" -> <<"span">>
    [] OTHER -> <<>>

\* Element.getStorage(element): the machine after the store of the element
\* was looked up, and created if there was none.
getStorage(m, n) ==
  LET g == getUniqueElementID(m, n)
  IN [g[2] EXCEPT !.stores = @ \cup {g[1]},
                  !.hashes = IF g[1] \in DOMAIN @ THEN @
                             ELSE [u \in DOMAIN @ \cup {g[1]} |->
                                     IF u = g[1] THEN <<>> ELSE @[u]]]

\* purgeElement that gives the identity back: the next identity assigned is
\* the one the element had.
purgeElement_Recycle(m, n) ==
  IF getUniqueElementID(m, n)[1] = 0 THEN m
  ELSE [stopObservingElement(m, n)
          EXCEPT !.uid[n] = UNDEFINED,
                 !.UID = getUniqueElementID(m, n)[1],
                 !.stores = @ \ {getUniqueElementID(m, n)[1]},
                 !.hashes = [u \in DOMAIN @ \ {getUniqueElementID(m, n)[1]} |->
                               @[u]]]

\* purgeElement(element): window's identity 0 fails the test  if (uid).
\* Element.stopObserving(element) assigns the identity again with the same
\* result, and runs stopObservingElement; then the identity is taken from the
\* element and its store deleted.
purgeElement(m, n) ==
  IF getUniqueElementID(m, n)[1] = 0 THEN m
  ELSE [stopObservingElement(m, n)
          EXCEPT !.uid[n] = UNDEFINED,
                 !.stores = @ \ {getUniqueElementID(m, n)[1]},
                 !.hashes = [u \in DOMAIN @ \ {getUniqueElementID(m, n)[1]} |->
                               @[u]]]

\* The loop of purge over the descendants, from the last to the first.
RECURSIVE purgeElements(_, _, _)
purgeElements(m, nodes, i) ==
  IF i = 0 THEN m ELSE purgeElements(purgeElement(m, nodes[i]), nodes, i - 1)

\* purge without the loop over the descendants.
purge_ElementOnly(m, n) == purgeElement(m, n)

\* Element.purge(element).
purge(m, n) ==
  purgeElements(purgeElement(m, n), descendants(n), Len(descendants(n)))

\* update that purges the element with its descendants.
update_WithElement(m, n) == purge(m, n)

\* Element.update(element, content): purgeElement for every descendant, in
\* document order.  The content is the markup the element had, so that the
\* same positions hold new nodes: they have no identity and no listener, as
\* the purged nodes they replace.
update(m, n) ==
  LET RECURSIVE forEach(_, _)
      forEach(m1, i) ==
        IF i > Len(descendants(n)) THEN m1
        ELSE forEach(purgeElement(m1, descendants(n)[i]), i + 1)
  IN forEach(m, 1)

\* Element.update(n, content)
Update(n) ==
  /\ StorageUID <= MaxUID
  /\ \E m \in {update(Machine, n)} :
        /\ Commit(m)
        /\ last' = Call("update", n, NoName, NoHandler, 0, n, NoEvent, m)
  /\ UNCHANGED <<instances, lifecycle>>

\* Element.purge(n)
Purge(n) ==
  /\ StorageUID <= MaxUID
  /\ \E m \in {purge(Machine, n)} :
        /\ Commit(m)
        /\ last' = Call("purge", n, NoName, NoHandler, 0, NoNode, NoEvent, m)
  /\ UNCHANGED <<instances, lifecycle>>

LifeNames == {nsfoo, click}

NextLife ==
  \/ \E n \in ObservedNodes, e \in LifeNames : Observe(n, e, PlainHandler("H1"))
  \/ \E n \in ObservedNodes, e \in LifeNames \cup {NoName},
        h \in {PlainHandler("H1"), NoHandler} :
       /\ e = NoName => h = NoHandler
       /\ StopObserving(n, e, h)
  \/ Fire("li", nsfoo, NoMemo, NoBubble)
  \/ Dispatch("li", click)
  \/ \E cb \in Callbacks : On("root", nsfoo, cb, NoCallback)
  \/ \E k \in 1..Len(instances) : Start(k)
  \/ \E k \in 1..Len(instances) : Stop(k)
  \/ \E n \in ObservedNodes : Purge(n)
  \/ Update("root")

SpecLife == Init /\ [][NextLife]_vars

(***************************************************************************)
(* C12.  After every operation the registry has an entry for a node if and *)
(* only if the node has a binding: every entry has a bucket, every bucket  *)
(* has a binding, an entry is filed under the identity of its element, and *)
(* a node has responders attached exactly if it has an entry.              *)
(***************************************************************************)
\* C12: an entry exists exactly for the nodes that have a binding; no entry
\* is without bucket and no bucket without binding.
C12_RegistryEntryInvariant ==
  /\ \A u \in DOMAIN cache :
       /\ DOMAIN cache[u].buckets # {}
       /\ \A e \in DOMAIN cache[u].buckets : Len(cache[u].buckets[e]) > 0
       /\ UidOf(cache[u].element) = u
  /\ \A n \in Nodes :
       HasEntry(cache, prototypeUID, n) <=> Attached(listeners, n) # {}

\* purge has just removed the last bindings of a node and of its descendant,
\* and with them the last entries of the registry.
C12_Witness ==
  /\ last.op = "purge"
  /\ last.delta <= -2
  /\ last.changed
  /\ cache = <<>>

(***************************************************************************)
(* C13.  In every reachable state, no bucket of the registry holds two     *)
(* bindings with the same handler.                                         *)
(***************************************************************************)
\* C13: the bindings of one bucket have pairwise different handlers.
C13_BindingUniqueness ==
  \A u \in DOMAIN cache :
    \A e \in DOMAIN cache[u].buckets :
      \A i, j \in 1..Len(cache[u].buckets[e]) :
        i # j => cache[u].buckets[e][i].handler # cache[u].buckets[e][j].handler

\* observe has just been called with the first handler of a bucket of two.
C13_Witness ==
  /\ last.op = "observe"
  /\ Len(Bucket(last.element, last.eventName)) = 2
  /\ Bucket(last.element, last.eventName)[1].handler = last.handler
  /\ ~last.changed

(***************************************************************************)
(* C14.  fire is synchronous.  When fire(N, name) has returned, every      *)
(* handler bound under name on a node the event visits (N, and its         *)
(* ancestors when it bubbles) has been invoked with the event that fire    *)
(* returns: a plain handler always, the callback of an Event.Handler when  *)
(* it has no selector or a node from the target up to its element matches  *)
(* the selector.  Every invocation made during the call received the       *)
(* returned event, and a call that dispatches nothing invokes no handler,  *)
(* so nothing is left to run after fire has returned.                      *)
(***************************************************************************)
\* The binding b of node n has been served by the call just made.
Served(n, b) ==
  IF b.handler.inst = 0
  THEN \E j \in 1..Len(log) :
         /\ log[j].handler = b.handler
         /\ log[j].fn = b.handler.fn
         /\ log[j].currentTarget = n
         /\ log[j].event = last.event
  ELSE LET self == instances[b.handler.inst]
       IN (self.selector = NoSelector
             \/ NearestMatch(last.element, n, self.selector) # NoNode)
          => \E j \in 1..Len(log) :
               /\ log[j].handler = b.handler
               /\ log[j].fn = self.callback
               /\ log[j].currentTarget = n
               /\ log[j].event = last.event

\* C14: when fire returns, every matching handler on the nodes visited has
\* run with the returned event, and no handler runs outside a dispatch.
C14_FireSynchronous ==
  /\ last.op = "fire" =>
       /\ \A n \in Visited(last.element, last.event) :
            \A i \in 1..Len(Bucket(n, last.eventName)) :
              Served(n, Bucket(n, last.eventName)[i])
       /\ \A j \in 1..Len(log) : log[j].event = last.event
       /\ last.event.target = last.element
  /\ ~IsDispatch(last) => log = <<>>

\* fire on a descendant has just returned after a delegated callback ran on
\* an ancestor, for a node between the target and that ancestor.
C14_Witness ==
  /\ last.op = "fire"
  /\ last.event.bubbles
  /\ \E j \in 1..Len(log) :
       /\ log[j].currentTarget # last.element
       /\ log[j].handler.inst > 0
       /\ instances[log[j].handler.inst].selector # NoSelector
       /\ log[j].event = last.event

(***************************************************************************)
(* fire with a payload: the memo argument ranges over no argument, an      *)
(* object and the falsy values 0, false and ''.                            *)
(***************************************************************************)
Payloads == Memos \cup {"0", "false", "''"}

\* Event.fire(n, eventName, memo); the record of the call keeps the memo
\* argument.
FireMemo(n, eventName, memo) ==
  /\ \E m \in {fire(Machine, n, eventName, memo, NoBubble)} :
        /\ Commit(m)
        /\ last' = Call("fire", n, eventName, NoHandler, 0, NoNode,
                        [fireEvent(eventName, memo, NoBubble) EXCEPT !.target = n],
                        m) @@ [memo |-> memo]
  /\ UNCHANGED <<instances, lifecycle>>

NextMemo ==
  \/ \E n \in ObservedNodes, h \in PlainHandlers : Observe(n, nsfoo, h)
  \/ \E n \in ObservedNodes : StopObserving(n, NoName, NoHandler)
  \/ \E n \in ObservedNodes, memo \in Payloads : FireMemo(n, nsfoo, memo)

SpecMemo == Init /\ [][NextMemo]_vars

(***************************************************************************)
(* C15.  Each handler invoked by fire(N, name, payload) receives an event  *)
(* whose eventName is name and whose memo is the payload, whatever the     *)
(* payload is (0, false and '' included); the memo is the empty object     *)
(* only when no payload was passed.                                        *)
(***************************************************************************)
\* C15: the memo a handler receives is the payload passed to fire, and {}
\* exactly when none was passed.
C15_PayloadDelivery ==
  last.op = "fire" =>
    \A i \in 1..Len(log) :
      /\ log[i].event.eventName = last.eventName
      /\ log[i].event.memo
           = (IF last.memo = NoMemo THEN EmptyObject ELSE last.memo)

(***************************************************************************)
(* dom:loaded.  The library's last block runs when the library is          *)
(* evaluated; afterwards the platform raises DOMContentLoaded on the       *)
(* document and load on the window, user code observes 'dom:loaded' on the *)
(* document, and one user function has the load signal arrive while it     *)
(* runs.                                                                   *)
(***************************************************************************)
\* The block without the fallback on the load of the window.
initContentLoaded_NoFallback(m, rs) ==
  IF rs = "complete" THEN fireContentLoadedEvent(m)
  ELSE addEventListener(m, document, DOMContentLoaded,
                        RawListener(PlainHandler("fireContentLoadedEvent")))

\* The block after fireContentLoadedEvent, run with document.readyState rs.
initContentLoaded(m, rs) ==
  IF rs = "complete" THEN fireContentLoadedEvent(m)
  ELSE observe(addEventListener(m, document, DOMContentLoaded,
                                RawListener(PlainHandler("fireContentLoadedEvent"))),
               window, load, PlainHandler("fireContentLoadedEvent"))

\* The state after the library was evaluated, whatever document.readyState was.
InitLoaded ==
  \E rs \in {"loading", "interactive", "complete"} :
    \E m \in {initContentLoaded(
               [uid |-> [n \in Nodes \ {window} |-> UNDEFINED], UID |-> 1,
                stores |-> {}, cache |-> <<>>, listeners |-> [n \in Nodes |-> <<>>],
                log |-> <<>>, loaded |-> FALSE, fired |-> 0, signals |-> 0,
                raised |-> NoError, uncaught |-> <<>>, flags |-> NewEvent,
                returned |-> NewEvent, hashes |-> <<>>], rs)} :
       /\ prototypeUID = m.uid
       /\ StorageUID = m.UID
       /\ stores = m.stores
       /\ hashes = m.hashes
       /\ cache = m.cache
       /\ listeners = m.listeners
       /\ log = m.log
       /\ loaded = m.loaded
       /\ fired = m.fired
       /\ signals = m.signals
       /\ readyState = rs
       /\ instances = <<>>
       /\ lifecycle = <<>>
       /\ last = [op |-> "load", element |-> NoNode, eventName |-> NoName,
                  handler |-> NoHandler, inst |-> 0, ret |-> NoNode,
                  event |-> NoEvent, changed |-> FALSE, delta |-> 0,
                  stored |-> 0, uncaught |-> <<>>, flags |-> NewEvent]

\* The platform raises a readiness signal: an event of the given type on n.
Signal(n, type) ==
  /\ signals < MaxSignals
  /\ \E m \in {dispatchEvent([Machine EXCEPT !.signals = @ + 1], n,
                             platformEvent(type))} :
        /\ Commit(m)
        /\ last' = Call("signal", n, type, NoHandler, 0, NoNode,
                        [platformEvent(type) EXCEPT !.target = n], m)
  /\ UNCHANGED <<instances, lifecycle>>

LoadedHandlers == PlainHandlers \cup {PlainHandler("HSignal")}

NextLoaded ==
  \/ \E h \in LoadedHandlers : Observe(document, domloaded, h)
  \/ \E h \in LoadedHandlers : StopObserving(document, domloaded, h)
  \/ Signal(document, DOMContentLoaded)
  \/ Signal(window, load)

SpecLoaded == InitLoaded /\ [][NextLoaded]_vars

(***************************************************************************)
(* C16.  fireContentLoadedEvent fires 'dom:loaded' at most once, whatever  *)
(* signals are raised, in whatever number and order, also when one is      *)
(* raised while the handlers of dom:loaded run.                            *)
(***************************************************************************)
\* C16: dom:loaded is fired at most once.
C16_FiredAtMostOnce == fired <= 1

\* A second signal has been raised while a handler of dom:loaded was running,
\* and dom:loaded has been fired once.
C16_Witness ==
  /\ last.op = "signal"
  /\ signals >= 2
  /\ fired = 1
  /\ \E j \in 1..Len(log) :
       log[j].fn = "HSignal" /\ log[j].event.eventName = domloaded

(***************************************************************************)
(* C17.  dom:loaded is fired at the first readiness signal.  In a document *)
(* that was complete when the library was evaluated it has been fired from *)
(* the start; otherwise it has not been fired while no signal was raised   *)
(* and has been fired as soon as one was, DOMContentLoaded or load,        *)
(* whichever came first; document.loaded is true exactly when it has been  *)
(* fired; and the step that fires it invokes every handler observing       *)
(* 'dom:loaded' on the document, with the document as context and target.  *)
(***************************************************************************)
C17_Fired ==
  /\ fired = (IF readyState = "complete" \/ signals >= 1 THEN 1 ELSE 0)
  /\ loaded = (fired = 1)

C17_FiringStep ==
  fired' # fired =>
    /\ last'.op = "signal"
    /\ signals = 0
    /\ \A i \in 1..Len(Bucket(document, domloaded)) :
         \E j \in 1..Len(log') :
           /\ log'[j].handler = Bucket(document, domloaded)[i].handler
           /\ log'[j].this = document
           /\ log'[j].event.eventName = domloaded
           /\ log'[j].event.target = document

\* C17: dom:loaded is fired on the document at the first of DOMContentLoaded
\* and window load, or at once if the document was already complete.
C17_FiredAtFirstSignal == []C17_Fired /\ [][C17_FiringStep]_vars

\* The load of the window was the first signal, in a document whose
\* DOMContentLoaded had passed, and a handler of dom:loaded has just run.
C17_Witness ==
  /\ readyState = "interactive"
  /\ last.op = "signal"
  /\ last.element = window
  /\ signals = 1
  /\ fired = 1
  /\ loaded
  /\ \E j \in 1..Len(log) : log[j].this = document /\ log[j].fn = "H1"

(***************************************************************************)
(* C18.  Whenever a dispatch invokes a handler registered with             *)
(* observe(N, E, H), the context of the call is N, the node H is bound on, *)
(* and its argument is the event being dispatched, also when the event     *)
(* occurred on a descendant of N.                                          *)
(***************************************************************************)
\* C18: a handler bound with observe is called with its node as context and
\* the dispatched event as argument.
C18_HandlerContext ==
  IsDispatch(last) =>
    \A j \in 1..Len(log) :
      log[j].handler.inst = 0 =>
        /\ IsBound(log[j].currentTarget, log[j].bucket, log[j].handler)
        /\ log[j].fn = log[j].handler.fn
        /\ log[j].this = log[j].currentTarget
        /\ log[j].event = last.event

\* A native event that occurred on a descendant has just invoked a handler
\* bound on an ancestor.
C18_Witness ==
  /\ last.op = "dispatch"
  /\ \E j \in 1..Len(log) :
       /\ log[j].handler.inst = 0
       /\ log[j].currentTarget # last.element
       /\ log[j].this = log[j].currentTarget
       /\ log[j].event.target = last.element

(***************************************************************************)
(* C19.  stopObserving(N, E) without a handler removes exactly the bucket  *)
(* E of N: afterwards (N, E) has no binding and no responder attached;     *)
(* every other bucket of N and every bucket of every other node is what it *)
(* was, and so are the listeners of the other nodes and, in their order,   *)
(* the remaining listeners of N; N keeps its entry exactly if it had a     *)
(* bucket other than E.  A dispatch invokes, at each node it visits, the   *)
(* handlers of the bucket in bucket order (C3_DispatchStep), so the        *)
(* removed handlers are not invoked and the others are, in their order.    *)
(***************************************************************************)
C19_StopObservingStep ==
  (last'.op = "stopObserving" /\ last'.eventName # NoName
     /\ last'.handler = NoHandler) =>
    LET n == last'.element
        e == last'.eventName
    IN /\ BucketIn(cache', prototypeUID', n, e) = <<>>
       /\ \A r \in Attached(listeners', n) : r.eventName # e
       /\ \A n2 \in Nodes, e2 \in EventNames :
            (n2 # n \/ e2 # e)
              => BucketIn(cache', prototypeUID', n2, e2) = Bucket(n2, e2)
       /\ \A n2 \in Nodes \ {n} : listeners'[n2] = listeners[n2]
       /\ listeners'[n] = SelectSeq(listeners[n], LAMBDA l : l.listener.eventName # e)
       /\ HasEntry(cache', prototypeUID', n)
            <=> \E e2 \in EventNames \ {e} : Len(Bucket(n, e2)) > 0

\* C19: stopObserving(N, E) removes the bucket E of N and nothing else.
C19_StopObservingFrame == [][C19_StopObservingStep /\ C3_DispatchStep]_vars

\* stopObserving(N, E) has just removed a bucket of a node that keeps its
\* entry for another event name.
C19_Witness ==
  /\ last.op = "stopObserving"
  /\ last.eventName # NoName
  /\ last.handler = NoHandler
  /\ last.delta = -1
  /\ HasEntry(cache, prototypeUID, last.element)
  /\ Len(Bucket(last.element, last.eventName)) = 0

(***************************************************************************)
(* C20.  on(R, E, selector, cb) constructs an Event.Handler and starts it: *)
(* after the call the instance returned is observing (its bound handler is *)
(* in bucket (R, E) and one more responder is attached), and stop() on it  *)
(* leaves the registry and the listener lists as they were before the on   *)
(* call; a dispatch invokes no callback of an Event.Handler whose last     *)
(* call was stop.                                                          *)
(***************************************************************************)
\* on called in the current state with each of its argument lists, then
\* stop called on the instance it returns.
C20_Restored ==
  \A R \in DelegationRoots, E \in DelegationNames, s \in Selectors \cup {NoSelector} :
    LET self == IF s = NoSelector
                THEN onHandler(Len(instances) + 1, R, E, "cb", NoCallback)
                ELSE onHandler(Len(instances) + 1, R, E, s, "cb")
        started == start(Machine, self)
        stopped == stop(started, self)
    IN /\ self.callback = "cb"
       /\ self.selector = s
       /\ FindHandler(BucketIn(started.cache, started.uid, R, E), self.handler) # 0
       /\ ListenerCount(started.listeners) = ListenerCount(listeners) + 1
       /\ stopped.cache = cache
       /\ stopped.listeners = listeners

C20_Observing ==
  last.op = "on" =>
    /\ lifecycle[last.inst] = "start"
    /\ IsBound(instances[last.inst].element, instances[last.inst].eventName,
               instances[last.inst].handler)
    /\ last.changed
    /\ last.delta = 1

C20_Stopped ==
  IsDispatch(last) =>
    \A j \in 1..Len(log) :
      log[j].handler.inst > 0 => lifecycle[log[j].handler.inst] = "start"

\* C20: on returns an observing Event.Handler, and stop on it restores the
\* registry and the listeners to what they were before on.
C20_OnThenStop == C20_Restored /\ C20_Observing /\ C20_Stopped

\* stop has just been called on the instance on returned and removed its
\* binding, while a plain handler stays bound.
C20_Witness ==
  /\ last.op = "stop"
  /\ lifecycle[last.inst] = "stop"
  /\ last.delta = -1
  /\ cache # <<>>
  /\ BindingsOf(instances[last.inst].handler) = {}

(***************************************************************************)
(* C21.  Identities are unique.  The lookup of the window's identity gives *)
(* 0 and the lookup of any other node's never does; two nodes that hold    *)
(* identities hold different ones, and an identity the next lookups        *)
(* allocate is held by no node, so two lookups for two nodes never give    *)
(* the same identity; an entry of the registry is filed under the identity *)
(* of its element and of no other node.                                    *)
(***************************************************************************)
\* C21: the window has identity 0, no other node has, and no two nodes hold
\* or are given the same identity or share an entry of the registry.
C21_IdentityUniqueness ==
  /\ getUniqueElementID(Machine, window)[1] = 0
  /\ \A n \in Nodes \ {window} : getUniqueElementID(Machine, n)[1] # 0
  /\ \A n1, n2 \in Nodes \ {window} :
       n1 # n2 =>
         /\ (prototypeUID[n1] # UNDEFINED /\ prototypeUID[n2] # UNDEFINED)
              => prototypeUID[n1] # prototypeUID[n2]
         /\ LET g == getUniqueElementID(Machine, n1)
            IN getUniqueElementID(g[2], n2)[1] # g[1]
  /\ \A u \in DOMAIN cache : \A n \in Nodes : UidOf(n) = u <=> cache[u].element = n

\* Two nodes have entries in the registry under identities allocated after a
\* purge took the identities they had.
C21_Witness ==
  /\ Cardinality(DOMAIN cache) = 2
  /\ \A u \in DOMAIN cache : u > MaxUID
  /\ prototypeUID["root"] # UNDEFINED
  /\ prototypeUID["li"] # UNDEFINED
  /\ prototypeUID["root"] # prototypeUID["li"]

(***************************************************************************)
(* C22.  Identities are stable: a node that holds an identity is given the *)
(* same identity by every lookup made after any further operation          *)
(* (observe, stopObserving, fire, a dispatch, on, start, stop, purge).      *)
(***************************************************************************)
\* C22: after every step, the lookup of a node that held an identity before
\* the step returns that identity.
C22_IdentityStability ==
  [][\A n \in Nodes \ {window} :
       prototypeUID[n] # UNDEFINED =>
         getUniqueElementID([uid |-> prototypeUID', UID |-> StorageUID'], n)[1]
           = prototypeUID[n]]_vars

(***************************************************************************)
(* Handlers that call back into the library, or throw, while they run:     *)
(* bindings on li (and H1 on root), events dispatched on li.               *)
(***************************************************************************)
NextReentrant ==
  \/ \E e \in {nsfoo, click},
        f \in {"H1", "HStopSelf", "HStopH1", "HStopName", "HStopAll", "HObserve",
               "HThrow", "HStopThrow"} :
       Observe("li", e, PlainHandler(f))
  \/ \E e \in {nsfoo, click} : Observe("root", e, PlainHandler("H1"))
  \/ \E n \in {"li", "root"} : StopObserving(n, NoName, NoHandler)
  \/ Fire("li", nsfoo, NoMemo, NoBubble)
  \/ Dispatch("li", click)

SpecReentrant == Init /\ [][NextReentrant]_vars

(***************************************************************************)
(* C23.  An exception raised by a user handler is not caught by the        *)
(* responder, native or simulated: every invocation of a function that     *)
(* throws leaves one exception at the platform's top level, and the        *)
(* registry and the listeners after the dispatch are what the handlers     *)
(* made them: unchanged if the functions invoked only return or throw, and *)
(* without exactly the bindings of HStopThrow it was invoked for if it is  *)
(* the only function invoked that changes the registry.                    *)
(***************************************************************************)
C23_DispatchStep ==
  IsDispatch(last') =>
    /\ Len(last'.uncaught)
         = Cardinality({j \in 1..Len(log') : log'[j].fn \in {"HThrow", "HStopThrow"}})
    /\ \A k \in 1..Len(last'.uncaught) : last'.uncaught[k] = "Error"
    /\ (\A j \in 1..Len(log') : log'[j].fn \in {"H1", "H2", "HThrow"})
         => (cache' = cache /\ listeners' = listeners)
    /\ (\A j \in 1..Len(log') : log'[j].fn \in {"H1", "H2", "HThrow", "HStopThrow"})
         => \A n \in Nodes, e \in EventNames :
              HandlersOf(BucketIn(cache', prototypeUID', n, e))
                = SelectSeq(HandlersOf(Bucket(n, e)),
                            LAMBDA h : ~(/\ h.fn = "HStopThrow"
                                         /\ \E j \in 1..Len(log') :
                                              /\ log'[j].handler = h
                                              /\ log'[j].currentTarget = n
                                              /\ log'[j].bucket = e))

\* C23: a handler's exception propagates out of the responder to the
\* platform, and the registry stays as the handler left it.
C23_HandlerExceptionsPropagate == [][C23_DispatchStep]_vars

\* fire has just invoked a function that throws and one that removed its own
\* binding before it threw; both exceptions reached the platform.
C23_Witness ==
  /\ last.op = "fire"
  /\ Len(last.uncaught) = 2
  /\ \E j \in 1..Len(log) : log[j].fn = "HThrow"
  /\ \E j \in 1..Len(log) : log[j].fn = "HStopThrow"
  /\ last.changed
  /\ last.delta = -1

(***************************************************************************)
(* Element.Storage and purge: handlers and stores on root, li and span,    *)
(* purge of root and of li.                                                *)
(***************************************************************************)
\* Element.getStorage(n)
GetStorage(n) ==
  /\ StorageUID <= MaxUID
  /\ \E m \in {getStorage(Machine, n)} :
        /\ Commit(m)
        /\ last' = Call("getStorage", n, NoName, NoHandler, 0, NoNode, NoEvent, m)
  /\ UNCHANGED <<instances, lifecycle>>

NextPurge ==
  \/ \E n \in {"outer", "root", "li", "span"} : Observe(n, nsfoo, PlainHandler("H1"))
  \/ \E n \in {"outer", "li", "span"} : GetStorage(n)
  \/ \E n \in {"root", "li"} : Purge(n)
  \/ Fire("span", nsfoo, NoMemo, NoBubble)

SpecPurge == Init /\ [][NextPurge]_vars

(***************************************************************************)
(* C24.  purge(E) leaves E and each descendant of E without registry       *)
(* entry, without attached responder, without store in Element.Storage and *)
(* without identity; the buckets, listeners and stores of the nodes        *)
(* outside E's subtree are what they were; and a dispatch invokes no       *)
(* handler at a node that has no registry entry, so none at the purged     *)
(* nodes.                                                                  *)
(***************************************************************************)
\* E and its descendants.
Subtree(n) == {n} \cup {descendants(n)[i] : i \in 1..Len(descendants(n))}

C24_PurgeStep ==
  last'.op = "purge" =>
    /\ \A n \in Subtree(last'.element) :
         /\ ~HasEntry(cache', prototypeUID', n)
         /\ listeners'[n] = <<>>
         /\ prototypeUID'[n] = UNDEFINED
         /\ prototypeUID[n] \notin stores'
         /\ \A e \in EventNames : BucketIn(cache', prototypeUID', n, e) = <<>>
    /\ \A u \in stores' : u \in stores /\ \E n \in Nodes : UidOf(n) = u
    /\ \A n \in Nodes \ Subtree(last'.element) :
         /\ listeners'[n] = listeners[n]
         /\ UidOf(n) \in stores <=> UidOf(n) \in stores'
         /\ n # window => prototypeUID'[n] = prototypeUID[n]
         /\ \A e \in EventNames :
              BucketIn(cache', prototypeUID', n, e) = Bucket(n, e)

\* C24: purge removes the listeners and the storage of the element and of
\* its descendants, and of no other node.
C24_PurgeSubtree == [][C24_PurgeStep /\ C6_DispatchStep]_vars

\* purge(li) has just removed a binding and a store of li and span, while a
\* node outside keeps its binding and its store.
C24_Witness ==
  /\ last.op = "purge"
  /\ last.element = "li"
  /\ last.delta = -1
  /\ last.stored = -1
  /\ cache # <<>>
  /\ stores # {}
  /\ \A n \in Subtree(last.element) : prototypeUID[n] = UNDEFINED

Respond(uid, eventName, handler, event) ==
  /\ \E m \in {respond(Machine, createResponder(Machine, uid, eventName, handler),
                       event, NoNode)} :
          /\ Commit(m)
          /\ last' = Call("respond", NoNode, eventName, handler, 0,
                          IF m.raised = NoError THEN NoNode ELSE m.raised, event, m)
                       @@ [uid |-> uid]
  /\ UNCHANGED <<instances, lifecycle>>

NextResponder ==
  \/ \E n \in {"root", "li"}, e \in {click, nsfoo} : Observe(n, e, PlainHandler("H1"))
  \/ \E n \in {"root", "li"} : StopObserving(n, NoName, NoHandler)
  \/ \E uid \in 1..2, e \in {click, nsfoo},
        event \in {platformEvent(click), fireEvent(nsfoo, NoMemo, NoBubble),
                   fireEvent(nsbar, NoMemo, NoBubble)} :
       Respond(uid, e, PlainHandler("H1"), event)

SpecResponder == Init /\ [][NextResponder]_vars

(***************************************************************************)
(* C26.  A responder created for a native event name, called while the     *)
(* registry has no entry under its identity, returns without raising an    *)
(* error and without invoking the handler.                                 *)
(***************************************************************************)
\* C26: the native responder whose entry is missing raises nothing and
\* invokes nothing.
C26_NativeResponderMissingEntry ==
  (/\ last.op = "respond"
   /\ ~isCustomEvent(last.eventName)
   /\ last.uid \notin DOMAIN cache)
  => (last.ret # TypeError /\ \A j \in 1..Len(log) : log[j].fn # last.handler.fn)

(***************************************************************************)
(* C27.  A responder created for a simulated event name, called with an    *)
(* event that carries its event name while the registry has no entry under *)
(* its identity, returns without invoking the handler.                     *)
(***************************************************************************)
\* C27: the simulated responder whose entry is missing does not invoke the
\* handler.
C27_CustomResponderMissingEntry ==
  (/\ last.op = "respond"
   /\ isCustomEvent(last.eventName)
   /\ last.event.eventName = last.eventName
   /\ last.uid \notin DOMAIN cache)
  => \A j \in 1..Len(log) : log[j].fn # last.handler.fn

(***************************************************************************)
(* C28.  The registry and the platform agree.  After every operation, the  *)
(* listeners attached to a node are exactly the responders of the bindings *)
(* in the node's buckets, each attached once, under "dataavailable" if the *)
(* bucket's event name is simulated and under the event name otherwise;    *)
(* each responder recorded is the one created for its binding.             *)
(***************************************************************************)
\* The listeners the bindings of node n call for.
Recorded(n) ==
  IF ~HasEntry(cache, prototypeUID, n) THEN {}
  ELSE UNION {{[type |-> IF \E k \in 1..Len(e) : e[k] = ":" THEN dataavailable ELSE e,
                listener |-> cache[UidOf(n)].buckets[e][i].responder] :
                 i \in 1..Len(cache[UidOf(n)].buckets[e])} :
               e \in DOMAIN cache[UidOf(n)].buckets}

\* C28: for every node, the attached responders are those recorded in its
\* buckets, under the platform name of the bucket.
C28_RegistryPlatformConsistency ==
  /\ \A n \in Nodes :
       /\ {listeners[n][i] : i \in 1..Len(listeners[n])} = Recorded(n)
       /\ Len(listeners[n]) = Cardinality(Recorded(n))
  /\ \A u \in DOMAIN cache :
       /\ UidOf(cache[u].element) = u
       /\ \A e \in DOMAIN cache[u].buckets :
            /\ Len(cache[u].buckets[e])
                 = Cardinality({cache[u].buckets[e][i].responder :
                                  i \in 1..Len(cache[u].buckets[e])})
            /\ \A i \in 1..Len(cache[u].buckets[e]) :
                 LET b == cache[u].buckets[e][i]
                 IN /\ b.responder.uid = u
                    /\ b.responder.eventName = e
                    /\ b.responder.handler = b.handler

\* stop has just detached the responder of an Event.Handler from a node that
\* keeps a responder attached under the carrier name, while another node has
\* one attached under a native name.
C28_Witness ==
  /\ last.op = "stop"
  /\ last.delta = -1
  /\ \E n \in Nodes :
       /\ Len(listeners[n]) = 1
       /\ listeners[n][1].type = dataavailable
       /\ listeners[n][1].listener.eventName = nsfoo
  /\ \E n \in Nodes : Len(listeners[n]) = 1 /\ listeners[n][1].type = click

(***************************************************************************)
(* C29.  A handler may call stopObserving on the node the event is         *)
(* dispatched on while it runs: for itself (HStopSelf), for a handler      *)
(* bound after it (HStopH1), for the bucket (HStopName) or for the node    *)
(* (HStopAll).  No error results; a handler whose binding was removed      *)
(* before its turn is not invoked in that dispatch, every other handler    *)
(* bound when the dispatch started is invoked once, in order; a handler    *)
(* that removes itself is no longer bound afterwards, so it is invoked     *)
(* once overall; and the state after the dispatch satisfies the entry and  *)
(* the consistency invariants.                                             *)
(***************************************************************************)
\* The function of handler hp, when invoked, removes the binding of hq from
\* the bucket it was invoked for.
Removes(hp, hq) ==
  \/ hp.fn \in {"HStopName", "HStopAll"}
  \/ hp.fn = "HStopH1" /\ hq = PlainHandler("H1")
  \/ hp.fn \in {"HStopSelf", "HStopThrow"} /\ hq = hp

C29_DispatchStep ==
  IsDispatch(last') =>
    LET n == last'.element
        e == last'.eventName
        pre == HandlersOf(Bucket(n, e))
        post == HandlersOf(BucketIn(cache', prototypeUID', n, e))
        ran == LogHandlers(LogOf(log', n, e))
        Ran(h) == \E j \in 1..Len(ran) : ran[j] = h
    IN /\ \A j \in 1..Len(log') : log'[j].fn # TypeError
       /\ (\A j \in 1..Len(log') : log'[j].fn \notin {"HThrow", "HStopThrow"})
            => last'.uncaught = <<>>
       /\ ran = SelectSeq(pre, Ran)
       /\ \A q \in 1..Len(pre) :
            Ran(pre[q]) <=> ~\E p \in 1..(q - 1) :
                               Ran(pre[p]) /\ Removes(pre[p], pre[q])
       /\ \A q \in 1..Len(pre) :
            (\E k \in 1..Len(post) : post[k] = pre[q])
              <=> ~\E p \in 1..Len(pre) : Ran(pre[p]) /\ Removes(pre[p], pre[q])
       /\ C12_RegistryEntryInvariant'
       /\ C28_RegistryPlatformConsistency'

\* C29: removal by a handler during the dispatch takes effect at once and
\* leaves the registry and the platform consistent.
C29_ReentrantRemoval == [][C29_DispatchStep]_vars

\* fire on li has just invoked HStopH1, which removed the binding of H1
\* registered after it: H1 was not invoked at li.
C29_Witness ==
  /\ last.op = "fire"
  /\ last.element = "li"
  /\ last.delta = -1
  /\ last.uncaught = <<>>
  /\ \E j \in 1..Len(log) : log[j].fn = "HStopH1" /\ log[j].currentTarget = "li"
  /\ \A j \in 1..Len(log) : ~(log[j].fn = "H1" /\ log[j].currentTarget = "li")
  /\ HandlersOf(Bucket("li", nsfoo)) = <<PlainHandler("HStopH1")>>

(***************************************************************************)
(* C30.  A handler may call observe on the node the event is dispatched on *)
(* while it runs: HObserve binds H2 to the bucket it is invoked for.  When *)
(* no handler invoked in the dispatch removes a binding, every handler     *)
(* bound when the dispatch started is invoked once, in order, and the      *)
(* bucket afterwards is the bucket before with H2 appended, or the bucket  *)
(* before if it held H2; H2 is never bound twice; and in every dispatch    *)
(* that starts with H2 bound, H2 is invoked once unless a handler bound    *)
(* before it removes it first.                                             *)
(***************************************************************************)
C30_DispatchStep ==
  IsDispatch(last') =>
    LET n == last'.element
        e == last'.eventName
        pre == HandlersOf(Bucket(n, e))
        post == HandlersOf(BucketIn(cache', prototypeUID', n, e))
        ran == LogHandlers(LogOf(log', n, e))
        H2 == PlainHandler("H2")
        NoRemoval == \A j \in 1..Len(ran) :
                       ran[j].fn \in {"H1", "H2", "HObserve", "HThrow"}
    IN /\ ((\E j \in 1..Len(ran) : ran[j].fn = "HObserve") /\ NoRemoval)
            => /\ ran = pre
               /\ post = IF \E k \in 1..Len(pre) : pre[k] = H2
                         THEN pre ELSE Append(pre, H2)
       /\ Cardinality({k \in 1..Len(post) : post[k] = H2}) <= 1
       /\ \A q \in 1..Len(pre) :
            (pre[q] = H2 /\ ~\E p \in 1..(q - 1) : Removes(pre[p], H2))
              => Cardinality({j \in 1..Len(ran) : ran[j] = H2}) = 1

\* C30: registration by a handler during the dispatch does not disturb the
\* dispatch, binds the new handler once, and the new handler is invoked by
\* the dispatches that follow.
C30_ReentrantRegistration == [][C30_DispatchStep]_vars

\* fire on li has just invoked HObserve and then H1, bound after it; H2 was
\* appended to the bucket, attached, and not invoked.
C30_Witness ==
  /\ last.op = "fire"
  /\ last.element = "li"
  /\ last.delta = 1
  /\ HandlersOf(Bucket("li", nsfoo))
       = <<PlainHandler("HObserve"), PlainHandler("H1"), PlainHandler("H2")>>
  /\ LogHandlers(LogOf(log, "li", nsfoo))
       = <<PlainHandler("HObserve"), PlainHandler("H1")>>

(***************************************************************************)
(* Fired events and Event.stop: handlers H1 and HStop (which calls         *)
(* Event.stop for the event it is invoked with) on li, root and outer,     *)
(* events fired on span and li with bubble omitted, true and false; H1     *)
(* under the native names click and dataavailable on li and root, and fire *)
(* called on li with these names.                                          *)
(***************************************************************************)
NextFire ==
  \/ \E n \in {"li", "root", "outer"}, f \in {"H1", "HStop"} :
       Observe(n, nsfoo, PlainHandler(f))
  \/ \E n \in {"li", "root"}, e \in {click, dataavailable} :
       Observe(n, e, PlainHandler("H1"))
  \/ \E n \in {"li", "root", "outer"} : StopObserving(n, NoName, NoHandler)
  \/ \E n \in {"span", "li"}, b \in Bubbles : Fire(n, nsfoo, NoMemo, b)
  \/ \E e \in {click, dataavailable} : Fire("li", e, NoMemo, NoBubble)

SpecFire == Init /\ [][NextFire]_vars

(***************************************************************************)
(* C31.  fire(N, name, payload) with bubble omitted or true invokes the    *)
(* handlers observed under name on N first, then those on each ancestor of *)
(* N, from the nearest to the farthest; with bubble = false it invokes     *)
(* the handlers observed on N and none on an ancestor.  (For a name with   *)
(* a namespace separator, and as long as no handler invoked calls          *)
(* Event.stop.)                                                            *)
(***************************************************************************)
C31_FireStep ==
  (last'.op = "fire" /\ isCustomEvent(last'.eventName)
     /\ last'.flags.stopped # "true") =>
    LET n == last'.element
        e == last'.eventName
        path == IF last'.bubble \in {NoBubble, "true"} THEN EventPath(n) ELSE <<n>>
    IN /\ \A k \in 1..Len(path) :
            LogHandlers(LogOf(log', path[k], e)) = HandlersOf(Bucket(path[k], e))
       /\ \A j \in 1..Len(log') :
            \E k \in 1..Len(path) : log'[j].currentTarget = path[k]
       /\ \A i, j \in 1..Len(log') :
            i < j => Len(EventPath(log'[i].currentTarget))
                       >= Len(EventPath(log'[j].currentTarget))

\* C31: a fired event visits N and then its ancestors from the nearest to
\* the farthest, or N only if bubble is false.
C31_FireBubbling == [][C31_FireStep]_vars

\* fire(li, name) with bubble omitted has just invoked the handler on li and
\* then the handler on root.
C31_Witness ==
  /\ last.op = "fire"
  /\ last.element = "li"
  /\ last.bubble = NoBubble
  /\ Len(log) = 2
  /\ log[1].currentTarget = "li"
  /\ log[2].currentTarget = "root"
  /\ log[1].fn = "H1"

(***************************************************************************)
(* C32.  Event.stop.  When a handler invoked for a fired event at a node   *)
(* calls Event.stop(event), the event fire returns has stopped = true and  *)
(* its default action is prevented, no handler is invoked at an ancestor   *)
(* of that node, and every handler bound at that node is still invoked;    *)
(* if no handler calls Event.stop, the event returned does not have        *)
(* stopped = true and its default action is not prevented.                 *)
(***************************************************************************)
C32_FireStep ==
  last'.op = "fire" =>
    LET e == last'.eventName
        Stops == {j \in 1..Len(log') : log'[j].fn = "HStop"}
    IN /\ Stops # {} => last'.flags = [defaultPrevented |-> TRUE,
                                       propagationStopped |-> TRUE,
                                       stopped |-> "true"]
       /\ Stops = {} => /\ last'.flags.stopped # "true"
                        /\ ~last'.flags.defaultPrevented
       /\ \A j \in Stops :
            LET c == log'[j].currentTarget
            IN /\ \A i \in 1..Len(log') :
                    Len(EventPath(log'[i].currentTarget)) >= Len(EventPath(c))
               /\ LogHandlers(LogOf(log', c, e)) = HandlersOf(Bucket(c, e))

\* C32: Event.stop marks the event, keeps it from the ancestors and lets the
\* handlers of the node it was called at run.
C32_EventStop == [][C32_FireStep]_vars

\* fire(li, name) has just invoked HStop at li; H1 bound to root was not
\* invoked, and the event returned has stopped = true.
C32_Witness ==
  /\ last.op = "fire"
  /\ last.element = "li"
  /\ last.bubble \in {NoBubble, "true"}
  /\ last.flags.stopped = "true"
  /\ last.flags.defaultPrevented
  /\ Len(log) = 1
  /\ log[1].fn = "HStop"
  /\ log[1].currentTarget = "li"
  /\ HandlersOf(Bucket("root", nsfoo)) = <<PlainHandler("H1")>>

(***************************************************************************)
(* Element.update: handlers H1 and H2 on root, H1 on li and span, stores   *)
(* on root and li, update of root, events fired on root and li.            *)
(***************************************************************************)
NextUpdate ==
  \/ \E f \in {"H1", "H2"} : Observe("root", nsfoo, PlainHandler(f))
  \/ \E n \in {"li", "span"} : Observe(n, nsfoo, PlainHandler("H1"))
  \/ \E n \in {"root", "li"} : GetStorage(n)
  \/ Update("root")
  \/ \E n \in {"root", "li"} : Fire(n, nsfoo, NoMemo, NoBubble)

SpecUpdate == Init /\ [][NextUpdate]_vars

(***************************************************************************)
(* C33.  Element.update(E, content) removes the listeners and the storage  *)
(* of every descendant of E and keeps those of E: after update the         *)
(* registry has no entry for a former descendant and no store under its    *)
(* identity, nothing is attached at the positions of the descendants, E    *)
(* keeps its identity, its buckets, its responders and its store, and a    *)
(* dispatch that reaches E invokes the handlers of E's bucket in order.    *)
(***************************************************************************)
C33_UpdateStep ==
  last'.op = "update" =>
    LET E == last'.element
        former == {descendants(E)[i] : i \in 1..Len(descendants(E))}
    IN /\ \A d \in former :
            /\ prototypeUID[d] # UNDEFINED =>
                 /\ prototypeUID[d] \notin DOMAIN cache'
                 /\ prototypeUID[d] \notin stores'
            /\ ~HasEntry(cache', prototypeUID', d)
            /\ listeners'[d] = <<>>
       /\ \A u \in DOMAIN cache' : cache'[u].element \notin former
       /\ prototypeUID'[E] = prototypeUID[E]
       /\ listeners'[E] = listeners[E]
       /\ \A e \in EventNames :
            BucketIn(cache', prototypeUID', E, e) = Bucket(E, e)
       /\ prototypeUID[E] \in stores <=> prototypeUID'[E] \in stores'

C33_FireStep ==
  last'.op = "fire" =>
    LogHandlers(LogOf(log', "root", nsfoo)) = HandlersOf(Bucket("root", nsfoo))

\* C33: update purges the descendants and leaves the element as it was.
C33_UpdateKeepsElement == [][C33_UpdateStep /\ C33_FireStep]_vars

\* update(root) has just removed the listener and the store of li, while
\* root keeps its binding and its store.
C33_Witness ==
  /\ last.op = "update"
  /\ last.element = "root"
  /\ last.delta = -1
  /\ last.stored = -1
  /\ HandlersOf(Bucket("root", nsfoo)) # <<>>
  /\ prototypeUID["root"] \in stores

(***************************************************************************)
(* Element.store and Element.retrieve.  A store is a Hash: set(key, value) *)
(* assigns the value to the key, get(key) is the value of the key, or      *)
(* undefined if the store has no such key.                                 *)
(***************************************************************************)
\* JavaScript's undefined, where a stored value or a default is expected.
NoValue == "undefined"

\* storage.set(key, value) on the store of n, which exists in m1.
storageSet(m1, n, key, value) ==
  [m1 EXCEPT !.hashes[m1.uid[n]] =
     [k \in DOMAIN @ \cup {key} |-> IF k = key THEN value ELSE @[k]]]

\* storage.get(key) on the store of n, which exists in m1.
storageGet(m1, n, key) ==
  IF key \in DOMAIN m1.hashes[m1.uid[n]] THEN m1.hashes[m1.uid[n]][key]
  ELSE NoValue

\* store that leaves a key that has a value as it is.
store_KeepFirst(m, n, key, value) ==
  IF storageGet(getStorage(m, n), n, key) # NoValue THEN getStorage(m, n)
  ELSE storageSet(getStorage(m, n), n, key, value)

\* Element.store(element, key, value), called with three arguments.
store(m, n, key, value) == storageSet(getStorage(m, n), n, key, value)

\* Element.retrieve(element, key, defaultValue): [1] the value returned,
\* [2] the machine afterwards.
retrieve(m, n, key, defaultValue) ==
  IF storageGet(getStorage(m, n), n, key) = NoValue
  THEN <<defaultValue, storageSet(getStorage(m, n), n, key, defaultValue)>>
  ELSE <<storageGet(getStorage(m, n), n, key), getStorage(m, n)>>

\* Element.store(n, key, value)
Store(n, key, value) ==
  /\ StorageUID <= MaxUID
  /\ \E m \in {store(Machine, n, key, value)} :
        /\ Commit(m)
        /\ last' = Call("store", n, NoName, NoHandler, 0, n, NoEvent, m)
                     @@ [key |-> key, value |-> value]
  /\ UNCHANGED <<instances, lifecycle>>

\* Element.retrieve(n, key, defaultValue)
Retrieve(n, key, defaultValue) ==
  /\ StorageUID <= MaxUID
  /\ \E r \in {retrieve(Machine, n, key, defaultValue)} :
        /\ Commit(r[2])
        /\ last' = Call("retrieve", n, NoName, NoHandler, 0, NoNode, NoEvent, r[2])
                     @@ [key |-> key, value |-> defaultValue, result |-> r[1]]
  /\ UNCHANGED <<instances, lifecycle>>

NextStore ==
  \/ \E n \in {"root", "li"}, v \in {"a", "b", NoValue} : Store(n, "k", v)
  \/ \E n \in {"root", "li"}, d \in {NoValue, "d"} : Retrieve(n, "k", d)
  \/ \E n \in {"root", "li"} : Purge(n)

SpecStore == Init /\ [][NextStore]_vars

\* What retrieve(n, key) returns with the stores hs and the identities uids.
Held(hs, uids, n, key) ==
  IF uids[n] \in DOMAIN hs /\ key \in DOMAIN hs[uids[n]] THEN hs[uids[n]][key]
  ELSE NoValue

\* store(E, key, value) makes value the value held for (E, key); retrieve
\* without default returns the value held, undefined if there is none; purge
\* leaves no value held for the nodes it covers.
C34_CallStep ==
  /\ last'.op = "store" =>
       Held(hashes', prototypeUID', last'.element, last'.key) = last'.value
  /\ (last'.op = "retrieve" /\ last'.value = NoValue) =>
       last'.result = Held(hashes, prototypeUID, last'.element, last'.key)
  /\ last'.op = "purge" =>
       \A n \in Subtree(last'.element) : Held(hashes', prototypeUID', n, "k") = NoValue

(***************************************************************************)
(* C34.  retrieve(E, key) returns the value of the most recent             *)
(* store(E, key, value) made on E since its last purge, whatever was       *)
(* stored under the key on other elements, and undefined after purge(E):   *)
(* the value held for (E, key) is set by store(E, key, value), cleared by  *)
(* a purge that covers E, returned by retrieve, and changed by no other    *)
(* call.                                                                   *)
(***************************************************************************)
C34_StorageRoundTrip ==
  [][/\ C34_CallStep
     /\ \A n \in Elements :
          Held(hashes', prototypeUID', n, "k") # Held(hashes, prototypeUID, n, "k")
            => \/ last'.op = "store" /\ last'.element = n
               \/ last'.op = "purge" /\ n \in Subtree(last'.element)]_vars

\* C34, amended: the value held for (E, key) is also changed by
\* retrieve(E, key, defaultValue) when no defined value is held: it stores
\* the default and returns it; when a defined value is held, retrieve with
\* a default returns the value held.
C34_StorageRoundTripWithDefault ==
  [][/\ C34_CallStep
     /\ (last'.op = "retrieve" /\ last'.value # NoValue) =>
          LET held == Held(hashes, prototypeUID, last'.element, last'.key)
          IN /\ last'.result = IF held = NoValue THEN last'.value ELSE held
             /\ Held(hashes', prototypeUID', last'.element, last'.key) = last'.result
     /\ \A n \in Elements :
          Held(hashes', prototypeUID', n, "k") # Held(hashes, prototypeUID, n, "k")
            => \/ last'.op = "store" /\ last'.element = n
               \/ last'.op = "purge" /\ n \in Subtree(last'.element)
               \/ /\ last'.op = "retrieve" /\ last'.element = n
                  /\ last'.value # NoValue
                  /\ Held(hashes, prototypeUID, n, "k") = NoValue]_vars

\* retrieve(li, k) without default has just returned b, stored on li after
\* a, while root holds a under the same key.
C34_Witness ==
  /\ last.op = "retrieve"
  /\ last.element = "li"
  /\ last.value = NoValue
  /\ last.result = "b"
  /\ Held(hashes, prototypeUID, "root", "k") = "a"

(***************************************************************************)
(* C35.  stopObserving(N, E, H) removes exactly one binding: the bucket    *)
(* (N, E) afterwards is the bucket before without the binding of H, the    *)
(* other bindings with the responders they had and in the order they had;  *)
(* at most one binding and one listener are gone; every other bucket of N  *)
(* and every bucket of another node is what it was; the listeners of the   *)
(* other nodes are what they were, and those of N are what they were, in   *)
(* their order, without the responder of the binding removed.              *)
(***************************************************************************)
C35_StopObservingStep ==
  (last'.op = "stopObserving" /\ last'.handler # NoHandler) =>
    LET n == last'.element
        e == last'.eventName
        h == last'.handler
        pre == Bucket(n, e)
        post == BucketIn(cache', prototypeUID', n, e)
        gone == {pre[i].responder : i \in {j \in 1..Len(pre) : pre[j].handler = h}}
    IN /\ post = SelectSeq(pre, LAMBDA b : b.handler # h)
       /\ Len(post) = IF IsBound(n, e, h) THEN Len(pre) - 1 ELSE Len(pre)
       /\ \A n2 \in Nodes, e2 \in EventNames :
            (n2 # n \/ e2 # e)
              => BucketIn(cache', prototypeUID', n2, e2) = Bucket(n2, e2)
       /\ \A n2 \in Nodes \ {n} : listeners'[n2] = listeners[n2]
       /\ listeners'[n] = SelectSeq(listeners[n], LAMBDA l : l.listener \notin gone)
       /\ Len(listeners'[n]) = Len(listeners[n]) - Cardinality(gone)

\* C35: stopObserving(N, E, H) leaves every other binding as it was.
C35_StopObservingOneBinding == [][C35_StopObservingStep]_vars

\* stopObserving(N, E, H) has just removed the first of the two bindings of a
\* bucket: the second one is left, with its responder attached.
C35_Witness ==
  /\ last.op = "stopObserving"
  /\ last.handler = PlainHandler("H1")
  /\ last.delta = -1
  /\ HandlersOf(Bucket(last.element, last.eventName)) = <<PlainHandler("H2")>>
  /\ Len(listeners[last.element]) = 1
  /\ listeners[last.element][1].listener.handler = PlainHandler("H2")

(***************************************************************************)
(* Event.on called again with the arguments of an earlier call: one        *)
(* Event.Handler more than MaxInstances, on root, with selector li.item    *)
(* and callback cb, for click and ns:foo.                                  *)
(***************************************************************************)
\* Event.on(element, eventName, selector, callback) with the arguments the
\* k-th Event.Handler was created with.
OnAgain(k) ==
  /\ Len(instances) <= MaxInstances
  /\ \E self \in {onHandler(Len(instances) + 1, instances[k].element,
                            instances[k].eventName, instances[k].selector,
                            instances[k].callback)} :
       \E m \in {start(Machine, self)} :
        /\ instances' = Append(instances, self)
        /\ Commit(m)
        /\ last' = Call("on", self.element, self.eventName, NoHandler,
                        Len(instances) + 1, NoNode, NoEvent, m) @@ [again |-> k]
  /\ lifecycle' = Append(lifecycle, "start")

NextOn ==
  \/ \E e \in {click, nsfoo} : On("root", e, "li.item", "cb")
  \/ \E k \in 1..Len(instances) : OnAgain(k)
  \/ \E k \in 1..Len(instances) : Start(k)
  \/ \E k \in 1..Len(instances) : Stop(k)
  \/ \E n \in {"span", "li", "root"} : Fire(n, nsfoo, NoMemo, NoBubble)
  \/ \E n \in {"span", "li", "root"} : Dispatch(n, click)

SpecOn == Init /\ [][NextOn]_vars

(***************************************************************************)
(* C36.  Event.on is not de-duplicated by callback.  A call of on with the *)
(* root, event name, selector and callback of an earlier call adds one     *)
(* binding and one responder; a matching event invokes the callback once   *)
(* for every Event.Handler that is bound, so twice for two; stop() on one  *)
(* Event.Handler removes its own binding only, and the callback is then    *)
(* invoked once for each of the others.                                    *)
(***************************************************************************)
C36_OnStep ==
  (last'.op = "on" /\ Len(instances) >= 1) =>
    LET self == instances'[Len(instances')]
        pre == Bucket(self.element, self.eventName)
        post == BucketIn(cache', prototypeUID', self.element, self.eventName)
    IN /\ HandlersOf(post) = Append(HandlersOf(pre), self.handler)
       /\ last'.delta = 1
       /\ \A k \in 1..Len(instances) : instances[k].handler # self.handler

C36_StopStep ==
  last'.op = "stop" =>
    LET self == instances[last'.inst]
    IN /\ BucketIn(cache', prototypeUID', self.element, self.eventName)
            = SelectSeq(Bucket(self.element, self.eventName),
                        LAMBDA b : b.handler # self.handler)
       /\ last'.delta >= -1

C36_DispatchStep ==
  IsDispatch(last') =>
    /\ \A k \in 1..Len(instances) :
         Cardinality({j \in 1..Len(log') :
                        log'[j].handler = instances[k].handler
                          /\ log'[j].fn = instances[k].callback})
           = IF /\ IsBound(instances[k].element, instances[k].eventName,
                           instances[k].handler)
                /\ instances[k].eventName = last'.eventName
                /\ findElement(last'.event, instances[k].element,
                               instances[k].selector) # NoNode
             THEN 1 ELSE 0
    /\ \A j \in 1..Len(log') :
         \E k \in 1..Len(instances) : log'[j].handler = instances[k].handler

\* C36: every call of on binds a handler of its own, invoked and stopped on
\* its own.
C36_OnNotDeduplicated == [][C36_OnStep /\ C36_StopStep /\ C36_DispatchStep]_vars

\* A click in li.item has just invoked cb twice, for two Event.Handlers made
\* by two calls of on with the same arguments.
C36_Witness ==
  /\ last.op = "dispatch"
  /\ Len(instances) = 2
  /\ instances[1].element = instances[2].element
  /\ instances[1].eventName = instances[2].eventName
  /\ instances[1].selector = instances[2].selector
  /\ instances[1].callback = instances[2].callback
  /\ Len(log) = 2
  /\ log[1].fn = "cb" /\ log[2].fn = "cb"
  /\ log[1].handler # log[2].handler

(***************************************************************************)
(* C37.  fire(N, E) for a name E without a colon raises no error and       *)
(* invokes no handler registered with observe(N, E, H), on N or on an      *)
(* ancestor of N.                                                          *)
(***************************************************************************)
\* C37: a fire with a name that is not namespaced leaves no exception and
\* invokes no handler of a bucket of that name.
C37_FirePlainName ==
  [][(last'.op = "fire" /\ ~isCustomEvent(last'.eventName)) =>
       /\ last'.uncaught = <<>>
       /\ \A j \in 1..Len(log') : log'[j].bucket # last'.eventName]_vars

(***************************************************************************)
(* C38.  De-duplication is per (node, event name).  observe(N, E, H) for a *)
(* handler that is not bound to (N, E) adds a binding and attaches a       *)
(* responder, also when H is bound to another node or to N under another   *)
(* name; the responders of all bindings are different; stopObserving of    *)
(* one binding of H leaves every other binding of H bound, with its        *)
(* responder attached; and a dispatch invokes the handlers of the bucket   *)
(* of every node it visits (C3_DispatchStep), so the other binding is      *)
(* still invoked.                                                          *)
(***************************************************************************)
\* The bindings of the registry c: node identity, event name, position.
AllBindings(c) ==
  {<<u, e, i>> \in (DOMAIN c) \X EventNames \X (1..(MaxBindings + 1)) :
     e \in DOMAIN c[u].buckets /\ i <= Len(c[u].buckets[e])}

C38_ObserveStep ==
  (last'.op = "observe" /\ ~IsBound(last'.element, last'.eventName, last'.handler)) =>
    /\ HandlersOf(BucketIn(cache', prototypeUID', last'.element, last'.eventName))
         = Append(HandlersOf(Bucket(last'.element, last'.eventName)), last'.handler)
    /\ last'.delta = 1
    /\ \A b1, b2 \in AllBindings(cache') :
         b1 # b2 => cache'[b1[1]].buckets[b1[2]][b1[3]].responder
                      # cache'[b2[1]].buckets[b2[2]][b2[3]].responder

C38_StopObservingStep ==
  (last'.op = "stopObserving" /\ last'.handler # NoHandler) =>
    \A n2 \in Nodes, e2 \in EventNames :
      ((n2 # last'.element \/ e2 # last'.eventName) /\ IsBound(n2, e2, last'.handler))
        => \E i \in 1..Len(BucketIn(cache', prototypeUID', n2, e2)) :
             LET b == BucketIn(cache', prototypeUID', n2, e2)[i]
             IN /\ b.handler = last'.handler
                /\ b.responder \in Attached(listeners', n2)

\* C38: the same handler bound to two buckets is two bindings.
C38_DeduplicationScope ==
  [][C38_ObserveStep /\ C38_StopObservingStep /\ C3_DispatchStep]_vars

\* stopObserving(N, E, H) has just removed one of two bindings of H; the
\* other one, in another bucket, is bound.
C38_Witness ==
  /\ last.op = "stopObserving"
  /\ last.handler # NoHandler
  /\ last.delta = -1
  /\ \E n2 \in Nodes, e2 \in EventNames :
       /\ n2 # last.element \/ e2 # last.eventName
       /\ IsBound(n2, e2, last.handler)

(***************************************************************************)
(* C39.  Identities are never recycled.  Element.Storage.UID never         *)
(* decreases and is greater than every identity held by a node, every key  *)
(* of the registry and every identity that has a store; an identity a step *)
(* assigns is at least the counter before the step, hence greater than     *)
(* every identity assigned before, and no registry entry and no store      *)
(* exists under it before the step.                                        *)
(***************************************************************************)
C39_Step ==
  /\ StorageUID' >= StorageUID
  /\ \A n \in Nodes \ {window} : prototypeUID'[n] < StorageUID'
  /\ \A u \in DOMAIN cache' : u < StorageUID'
  /\ \A u \in stores' \cup DOMAIN hashes' : u < StorageUID'
  /\ \A n \in Nodes \ {window} :
       (prototypeUID'[n] # UNDEFINED /\ prototypeUID'[n] # prototypeUID[n])
         => /\ prototypeUID'[n] >= StorageUID
            /\ prototypeUID'[n] \notin DOMAIN cache
            /\ prototypeUID'[n] \notin stores \cup DOMAIN hashes
            /\ \A n2 \in Nodes \ {window} : prototypeUID[n2] # prototypeUID'[n]

\* C39: the counter only grows and every identity assigned is new.
C39_IdentitiesNotRecycled == [][C39_Step]_vars

\* li has just been observed again after it was purged: it holds identity 3,
\* and no node holds identity 1 or 2.
C39_Witness ==
  /\ last.op = "observe"
  /\ last.element = "li"
  /\ prototypeUID["li"] = 3
  /\ StorageUID = 4
  /\ \A n \in Nodes \ {window, "li"} : prototypeUID[n] = UNDEFINED
  /\ DOMAIN cache = {3}

====
